---- MODULE Spec2Model ----
(***************************************************************************)
(* A model of the GitCDN backend (src/src/backend/api-app.ts): the         *)
(* encrypted cookie session, the OAuth handshake, the cookie codec, the    *)
(* asset move operation over the GitHub content API and the inventory      *)
(* builder.                                                                *)
(*                                                                         *)
(* JavaScript strings that the code inspects character by character are    *)
(* sequences of one-character strings; opaque strings (tokens, logins) are *)
(* TLA+ strings.  null/undefined results are the record Null, so that      *)
(* every comparison is between values of one kind.                         *)
(***************************************************************************)
EXTENDS Integers, Sequences, FiniteSets, TLC

\* ------------------------------------------------------------------ bounds
MaxTicks == 1
MaxStates == 1
IvBytes == 1
MaxDepth == 2
MaxRawLen == 2
MaxBlobs == 1
MaxTreeNodes == 3
MaxPathLen == 4

\* The files the uploads followed on their own may create.
MaxUploads == 1

\* -------------------------------------------------------- program constants
SESSION_TTL_MS == 24 * 60 * 60 * 1000
OAUTH_STATE_TTL_MS == 10 * 60 * 1000

\* ------------------------------------------------------------------ values
Null == [kind |-> "null"]
NoCookie == [kind |-> "none"]
Garbage == [kind |-> "garbage"]
Keep == [kind |-> "keep"]
Clear == [kind |-> "clear"]

VARIABLES
    now,                      \* Date.now()
    ticks,                    \* number of clock advances so far
    HAS_CRYPTO_CONFIG,        \* process configuration, fixed at start
    HAS_GITHUB_CLIENT_ID,
    HAS_GITHUB_CLIENT_SECRET,
    jar,                      \* the browser's cookies: [session, oauth]
    nextState,                \* number of OAuth state values minted
    consumed,                 \* state values a callback has accepted and consumed
    pend,                     \* the callback suspended at its await, or Null
    last,                     \* the last request answered and its response
    codec,                    \* the cookie codec at work on one token
    repo,                     \* the selected repository at GitHub: path -> entry
    before,                   \* the repository as the request in hand found it
    mv,                       \* the move request in hand
    inv,                      \* the inventory of one listing
    norm,                     \* the path normalizers at work on one input
    api                       \* the asset requests in hand, one per client

authVars == <<now, ticks, HAS_CRYPTO_CONFIG, HAS_GITHUB_CLIENT_ID,
              HAS_GITHUB_CLIENT_SECRET, jar,
              nextState, consumed, pend, last>>

moveVars == <<repo, before, mv>>

vars == <<authVars, codec, moveVars, inv, norm, api>>

\* What the steps of each component leave alone.
authFrame == <<codec, moveVars, inv, norm, api>>
codecFrame == <<authVars, moveVars, inv, norm, api>>
moveFrame == <<authVars, codec, inv, norm, api>>
invFrame == <<authVars, codec, moveVars, norm, api>>
normFrame == <<authVars, codec, moveVars, inv, api>>
apiFrame == <<authVars, codec, inv, norm>>

\* --------------------------------------------------------- string helpers
JStr(s) == [kind |-> "string", s |-> s]
JNum == [kind |-> "number"]

Lower == {"a","b","c","d","e","f","g","h","i","j","k","l","m",
          "n","o","p","q","r","s","t","u","v","w","x","y","z"}
Upper == {"A","B","C","D","E","F","G","H","I","J","K","L","M",
          "N","O","P","Q","R","S","T","U","V","W","X","Y","Z"}
Digit == {"0","1","2","3","4","5","6","7","8","9"}
IsSpace(c) == c \in {" ", "\t", "\n"}

RECURSIVE trimStart(_)
trimStart(s) == IF s # <<>> /\ IsSpace(Head(s)) THEN trimStart(Tail(s)) ELSE s

RECURSIVE trimEnd(_)
trimEnd(s) ==
    IF s # <<>> /\ IsSpace(s[Len(s)]) THEN trimEnd(SubSeq(s, 1, Len(s) - 1)) ELSE s

trim(s) == trimEnd(trimStart(s))

indexOf(s, c) ==
    IF \E i \in 1..Len(s) : s[i] = c
    THEN CHOOSE i \in 1..Len(s) : s[i] = c /\ \A j \in 1..(i - 1) : s[j] # c
    ELSE 0

lastIndexOf(s, c) ==
    IF \E i \in 1..Len(s) : s[i] = c
    THEN CHOOSE i \in 1..Len(s) : s[i] = c /\ \A j \in (i + 1)..Len(s) : s[j] # c
    ELSE 0

RECURSIVE split(_, _)
split(s, sep) ==
    LET i == indexOf(s, sep) IN
    IF i = 0 THEN <<s>>
    ELSE <<SubSeq(s, 1, i - 1)>> \o split(SubSeq(s, i + 1, Len(s)), sep)

includes(s, sub) ==
    \E i \in 1..(Len(s) - Len(sub) + 1) : SubSeq(s, i, i + Len(sub) - 1) = sub

\* ------------------------------------------------------ repository selection
\* /^[A-Za-z0-9_.-]+\/[A-Za-z0-9_.-]+$/
RepoNameChar(c) == c \in Lower \cup Upper \cup Digit \cup {"_", ".", "-"}

parseRepoFullName(value) ==
    IF value.kind # "string" THEN Null
    ELSE LET trimmed == trim(value.s)
             parts == split(trimmed, "/")
         IN IF /\ Len(parts) = 2
               /\ \A k \in 1..2 : parts[k] # <<>> /\ \A i \in 1..Len(parts[k]) : RepoNameChar(parts[k][i])
            THEN [kind |-> "repo", owner |-> parts[1], repo |-> parts[2]]
            ELSE Null

\* /^(?!\.)(?!.*\.\.)[A-Za-z0-9._/-]+$/
BranchChar(c) == c \in Lower \cup Upper \cup Digit \cup {".", "_", "/", "-"}

parseBranchName(value) ==
    IF value.kind # "string" THEN Null
    ELSE LET trimmed == trim(value.s) IN
         IF trimmed = <<>> THEN Null
         ELSE IF \/ Head(trimmed) = "."
                 \/ includes(trimmed, <<".", ".">>)
                 \/ \E i \in 1..Len(trimmed) : ~BranchChar(trimmed[i])
              THEN Null
              ELSE JStr(trimmed)

\* ------------------------------------------------------------ cookie store
Has(payload, field) == field \in DOMAIN payload

\* The sealed cookie value; the byte-level codec is modelled by encryptPayload below.
writeEncryptedCookie(payload) == [kind |-> "token", payload |-> payload]

readEncryptedCookie(value) == IF value.kind = "token" THEN value.payload ELSE Null

readSession_NoExpiry(value, t) ==
    LET payload == readEncryptedCookie(value) IN
    IF payload = Null THEN Null
    ELSE IF ~Has(payload, "github_token") \/ payload.github_token = "" THEN Null
    ELSE payload

readSession(value, t) ==
    LET payload == readEncryptedCookie(value) IN
    IF payload = Null THEN Null
    ELSE IF Has(payload, "expires_at") /\ t > payload.expires_at THEN Null
    ELSE IF ~Has(payload, "github_token") \/ payload.github_token = "" THEN Null
    ELSE payload

writeSession_ShortTtl(partial, t) ==
    writeEncryptedCookie(
        [github_token |-> partial.github_token,
         username |-> partial.username,
         avatar_url |-> partial.avatar_url,
         selected_repo |-> partial.selected_repo,
         selected_branch |-> partial.selected_branch,
         issued_at |-> t,
         expires_at |-> t + OAUTH_STATE_TTL_MS])

writeSession(partial, t) ==
    writeEncryptedCookie(
        [github_token |-> partial.github_token,
         username |-> partial.username,
         avatar_url |-> partial.avatar_url,
         selected_repo |-> partial.selected_repo,
         selected_branch |-> partial.selected_branch,
         issued_at |-> t,
         expires_at |-> t + SESSION_TTL_MS])

\* --------------------------------------------------------------- responses
Response(status, body, session, oauth, upstream) ==
    [status |-> status, body |-> body, session |-> session, oauth |-> oauth,
     upstream |-> upstream]

Err(msg) == [error |-> msg]

\* The body of the answer Express gives for an exception that left a handler.
Uncaught(msg) == [uncaught |-> msg]

\* ensureCryptoConfigured, ensureGitHubClientConfigured, ensureGitHubOAuthConfigured
CryptoNotConfigured ==
    Response(500, Err("Server session encryption is not configured."), Keep, Keep, 0)
OAuthNotConfigured ==
    Response(500, Err("GitHub OAuth is not configured."), Keep, Keep, 0)
HAS_GITHUB_OAUTH_CONFIG == HAS_GITHUB_CLIENT_ID /\ HAS_GITHUB_CLIENT_SECRET

\* requireSession's failure branch: cookie cleared, 401.
Unauthorized == Response(401, Err("Unauthorized"), Clear, Keep, 0)

\* ------------------------------------------------------------ cookie codec
\* Bytes are two bits wide; base64url writes a byte as a group of two characters
\* of a two-letter alphabet and reads back whole groups only.
Byte == 0..3
B64 == <<"A", "B">>

RECURSIVE toBase64url(_)
toBase64url(bytes) ==
    IF bytes = <<>> THEN <<>>
    ELSE <<B64[(Head(bytes) \div 2) + 1], B64[(Head(bytes) % 2) + 1]>>
             \o toBase64url(Tail(bytes))

B64Value(c) == IF c = "A" THEN 0 ELSE 1

RECURSIVE fromBase64url(_)
fromBase64url(chars) ==
    IF Len(chars) < 2 THEN <<>>
    ELSE <<2 * B64Value(chars[1]) + B64Value(chars[2])>>
             \o fromBase64url(SubSeq(chars, 3, Len(chars)))

\* JSON, cut down to null, a number and arrays of at most one element, written
\* with the bytes 0 (null), 1 (the number), 2 and 3 (the brackets).
JArr(items) == [kind |-> "array", items |-> items]

RECURSIVE JsonValues(_)
JsonValues(depth) ==
    IF depth = 0 THEN {Null, JNum}
    ELSE {Null, JNum, JArr(<<>>)} \cup {JArr(<<v>>) : v \in JsonValues(depth - 1)}

RECURSIVE JSONstringify(_)
JSONstringify(v) ==
    IF v = Null THEN <<0>>
    ELSE IF v = JNum THEN <<1>>
    ELSE IF v.items = <<>> THEN <<2, 3>>
    ELSE <<2>> \o JSONstringify(v.items[1]) \o <<3>>

SyntaxError == [kind |-> "SyntaxError"]

RECURSIVE parseValue(_)
parseValue(b) ==
    IF b = <<>> THEN [ok |-> FALSE]
    ELSE IF Head(b) = 0 THEN [ok |-> TRUE, value |-> Null, rest |-> Tail(b)]
    ELSE IF Head(b) = 1 THEN [ok |-> TRUE, value |-> JNum, rest |-> Tail(b)]
    ELSE IF Head(b) = 2
    THEN IF Len(b) >= 2 /\ b[2] = 3
         THEN [ok |-> TRUE, value |-> JArr(<<>>), rest |-> SubSeq(b, 3, Len(b))]
         ELSE LET r == parseValue(Tail(b)) IN
              IF r.ok /\ r.rest # <<>> /\ Head(r.rest) = 3
              THEN [ok |-> TRUE, value |-> JArr(<<r.value>>), rest |-> Tail(r.rest)]
              ELSE [ok |-> FALSE]
    ELSE [ok |-> FALSE]

JSONparse(b) ==
    LET r == parseValue(b) IN IF r.ok /\ r.rest = <<>> THEN r.value ELSE SyntaxError

\* AES-256-GCM under the process key: a keystream cipher, and a tag that no
\* other nonce and ciphertext share.
RECURSIVE SumBytes(_)
SumBytes(bytes) == IF bytes = <<>> THEN 0 ELSE Head(bytes) + SumBytes(Tail(bytes))

KeyStream(iv, i) == (SumBytes(iv) + 3 * i + 1) % 4

cipherUpdate(iv, plain) == [i \in 1..Len(plain) |-> (plain[i] + KeyStream(iv, i)) % 4]
decipherUpdate(iv, data) == [i \in 1..Len(data) |-> (data[i] + 4 - KeyStream(iv, i)) % 4]

RECURSIVE Marked(_, _)
Marked(mark, bytes) ==
    IF bytes = <<>> THEN <<>> ELSE <<mark, Head(bytes)>> \o Marked(mark, Tail(bytes))

getAuthTag(iv, data) == Marked(1, iv) \o Marked(2, data) \o <<3>>

Sealed_TagLast(plain, iv) ==
    LET encrypted == cipherUpdate(iv, plain)
        tag == getAuthTag(iv, encrypted)
    IN toBase64url(iv) \o <<".">> \o toBase64url(encrypted) \o <<".">> \o toBase64url(tag)

\* The token of a plaintext: nonce, tag and ciphertext, base64url, joined by dots.
Sealed(plain, iv) ==
    LET encrypted == cipherUpdate(iv, plain)
        tag == getAuthTag(iv, encrypted)
    IN toBase64url(iv) \o <<".">> \o toBase64url(tag) \o <<".">> \o toBase64url(encrypted)

\* iv is the value of crypto.randomBytes(12).
encryptPayload(payload, iv) == Sealed(JSONstringify(payload), iv)

decryptPayload(value) ==
    LET parts == split(value, ".")
        ivB64 == parts[1]
        tagB64 == IF Len(parts) >= 2 THEN parts[2] ELSE <<>>
        dataB64 == IF Len(parts) >= 3 THEN parts[3] ELSE <<>>
    IN IF ivB64 = <<>> \/ tagB64 = <<>> \/ dataB64 = <<>> THEN Null
       ELSE LET iv == fromBase64url(ivB64)
                tag == fromBase64url(tagB64)
                data == fromBase64url(dataB64)
            IN IF iv = <<>> THEN Null                      \* createDecipheriv throws
               ELSE IF tag # getAuthTag(iv, data) THEN Null \* setAuthTag or final throws
               ELSE LET parsed == JSONparse(decipherUpdate(iv, data)) IN
                    IF parsed = SyntaxError THEN Null ELSE parsed

\* ---------------------------------------------------------------- requests
Request(route, session, oauth, code, state, host, repoName, branch) ==
    [route |-> route, session |-> session, oauth |-> oauth, code |-> code,
     state |-> state, host |-> host, repo |-> repoName, branch |-> branch]

\* "guarded" stands for each of the handlers that start with
\* ensureCryptoConfigured and requireSession and go on to the GitHub API: GET
\* /api/repos, GET /api/assets, GET, POST and DELETE /api/folders, POST /api/upload,
\* POST /api/assets/move, DELETE /api/assets and DELETE /api/assets/:name.
AuthRoutes == {"GET /api/me", "POST /api/select-repo", "guarded"}

\* GET /api/auth/url; fresh is the value of crypto.randomBytes(24).
HandleAuthUrl(rq, t, fresh) ==
    IF ~HAS_CRYPTO_CONFIG THEN CryptoNotConfigured
    ELSE IF ~HAS_GITHUB_CLIENT_ID THEN OAuthNotConfigured
    ELSE LET cookie == writeEncryptedCookie(
                           [state |-> fresh, expires_at |-> t + OAUTH_STATE_TTL_MS])
         IN IF rq.host = "missing"
            THEN \* getBaseUrl throws after the cookie header was set
                 Response(500, Uncaught("Could not resolve request host."), Keep, cookie, 0)
            ELSE Response(200, [url_state |-> fresh], Keep, cookie, 0)

OAuthStateRejected_NoExpiry(oauthState, state, t) ==
    \/ oauthState = Null
    \/ ~Has(oauthState, "state")
    \/ oauthState.state # state

\* The check passing any cookie that decrypts and has not expired.
OAuthStateRejected_AnyToken(oauthState, state, t) ==
    \/ oauthState = Null
    \/ (Has(oauthState, "expires_at") /\ t > oauthState.expires_at)

\* GET /api/auth/callback: the check of the stored state against the query.
OAuthStateRejected(oauthState, state, t) ==
    \/ oauthState = Null
    \/ ~Has(oauthState, "state")
    \/ oauthState.state # state
    \/ (Has(oauthState, "expires_at") /\ t > oauthState.expires_at)

CallbackResponse_NoClear(status, body, session, upstream) ==
    Response(status, body, session, IF status = 200 THEN Clear ELSE Keep, upstream)

\* A response of the callback once the state cookie was read and cleared.
CallbackResponse(status, body, session, upstream) ==
    Response(status, body, session, Clear, upstream)

\* GET /api/auth/callback up to its first await; Null when it suspends there.
CallbackSync(rq, t) ==
    IF ~HAS_CRYPTO_CONFIG THEN CryptoNotConfigured
    ELSE IF ~HAS_GITHUB_OAUTH_CONFIG THEN OAuthNotConfigured
    ELSE LET oauthState == readEncryptedCookie(rq.oauth) IN
         IF rq.code = "" \/ rq.state = ""
         THEN CallbackResponse(400, Err("Missing OAuth code or state."), Keep, 0)
         ELSE IF OAuthStateRejected(oauthState, rq.state, t)
         THEN CallbackResponse(400, Err("Invalid or expired OAuth state."), Keep, 0)
         ELSE IF rq.host = "missing"
         THEN CallbackResponse(500, Err("Authentication failed"), Keep, 0)
         ELSE Null

\* What the provider answers to the token exchange and the identity query.
NoUser == [kind |-> "null"]
ProviderOutcomes ==
    { [exchange |-> "error", access_token |-> "", user |-> NoUser],
      [exchange |-> "ok", access_token |-> "", user |-> NoUser],
      [exchange |-> "ok", access_token |-> "gho_A", user |-> NoUser],
      [exchange |-> "ok", access_token |-> "gho_A",
       user |-> [kind |-> "user", login |-> "alice", avatar_url |-> "alice.png"]] }

\* The callback writing a session with no repository selected, whatever the
\* request's session holds.
CallbackResume_ForgetsSelection(rq, t, out) ==
    IF out.exchange = "error" \/ out.access_token = ""
    THEN CallbackResponse(500, Err("Authentication failed"), Keep, 1)
    ELSE IF out.user = NoUser
    THEN CallbackResponse(500, Err("Authentication failed"), Keep, 2)
    ELSE LET cookie == writeSession(
                 [github_token |-> out.access_token,
                  username |-> out.user.login,
                  avatar_url |-> out.user.avatar_url,
                  selected_repo |-> Null,
                  selected_branch |-> Null], t)
         IN IF rq.host = "malformed"
            THEN CallbackResponse(500, Err("Authentication failed"), cookie, 2)
            ELSE CallbackResponse(200, [html |-> "OAUTH_AUTH_SUCCESS"], cookie, 2)

\* GET /api/auth/callback from the token exchange on.
CallbackResume(rq, t, out) ==
    IF out.exchange = "error" \/ out.access_token = ""
    THEN CallbackResponse(500, Err("Authentication failed"), Keep, 1)
    ELSE IF out.user = NoUser
    THEN CallbackResponse(500, Err("Authentication failed"), Keep, 2)
    ELSE LET existingSession == readSession(rq.session, t)
             cookie == writeSession(
                 [github_token |-> out.access_token,
                  username |-> out.user.login,
                  avatar_url |-> out.user.avatar_url,
                  selected_repo |-> IF existingSession = Null THEN Null
                                    ELSE existingSession.selected_repo,
                  selected_branch |-> IF existingSession = Null THEN Null
                                      ELSE existingSession.selected_branch], t)
         IN IF rq.host = "malformed"
            THEN \* getOrigin throws after writeSession set the cookie header
                 CallbackResponse(500, Err("Authentication failed"), cookie, 2)
            ELSE CallbackResponse(200, [html |-> "OAUTH_AUTH_SUCCESS"], cookie, 2)

\* GET /api/me
HandleMe(rq, t) ==
    IF ~HAS_CRYPTO_CONFIG THEN CryptoNotConfigured
    ELSE LET session == readSession(rq.session, t) IN
         IF session = Null THEN Response(401, Err("Unauthorized"), Clear, Keep, 0)
         ELSE Response(200, [username |-> session.username,
                             avatar_url |-> session.avatar_url,
                             selected_repo |-> session.selected_repo,
                             selected_branch |-> session.selected_branch],
                       Keep, Keep, 0)

\* POST /api/logout
HandleLogout(rq, t) == Response(200, [success |-> TRUE], Clear, Clear, 0)

requireSession(rq, t) == readSession(rq.session, t)

\* POST /api/select-repo writing the session back with the stamps it had.
HandleSelectRepo_KeepsStamps(rq, t) ==
    IF ~HAS_CRYPTO_CONFIG THEN CryptoNotConfigured
    ELSE LET session == requireSession(rq, t) IN
         IF session = Null THEN Unauthorized
         ELSE LET parsedRepo == parseRepoFullName(rq.repo)
                  branch == IF rq.branch = Null THEN JStr(<<"m", "a", "i", "n">>)
                            ELSE parseBranchName(rq.branch)
              IN IF parsedRepo = Null
                 THEN Response(400, Err("Repository must be in owner/repo format."),
                               Keep, Keep, 0)
                 ELSE IF branch = Null
                 THEN Response(400, Err("Invalid branch name."), Keep, Keep, 0)
                 ELSE Response(200, [success |-> TRUE],
                               writeEncryptedCookie(
                                   [session EXCEPT
                                      !.selected_repo =
                                          JStr(parsedRepo.owner \o <<"/">> \o parsedRepo.repo),
                                      !.selected_branch = branch]),
                               Keep, 0)

\* POST /api/select-repo
HandleSelectRepo(rq, t) ==
    IF ~HAS_CRYPTO_CONFIG THEN CryptoNotConfigured
    ELSE LET session == requireSession(rq, t) IN
         IF session = Null THEN Unauthorized
         ELSE LET parsedRepo == parseRepoFullName(rq.repo)
                  branch == IF rq.branch = Null THEN JStr(<<"m", "a", "i", "n">>)
                            ELSE parseBranchName(rq.branch)
              IN IF parsedRepo = Null
                 THEN Response(400, Err("Repository must be in owner/repo format."),
                               Keep, Keep, 0)
                 ELSE IF branch = Null
                 THEN Response(400, Err("Invalid branch name."), Keep, Keep, 0)
                 ELSE Response(200, [success |-> TRUE],
                               writeSession(
                                   [session EXCEPT
                                      !.selected_repo =
                                          JStr(parsedRepo.owner \o <<"/">> \o parsedRepo.repo),
                                      !.selected_branch = branch], t),
                               Keep, 0)

\* The start of a handler that goes to the session without the configuration check.
HandleGuarded_Unchecked(rq, t) ==
    LET session == requireSession(rq, t) IN
    IF session = Null THEN Unauthorized
    ELSE Response(0, [session |-> session], Keep, Keep, 0)

\* The common start of every other authenticated handler; status 0 stands for
\* control passing on to the handler's body with the session.
HandleGuarded(rq, t) ==
    IF ~HAS_CRYPTO_CONFIG THEN CryptoNotConfigured
    ELSE LET session == requireSession(rq, t) IN
         IF session = Null THEN Unauthorized
         ELSE Response(0, [session |-> session], Keep, Keep, 0)

\* GET /api/health
HandleHealth(rq, t) ==
    Response(200, [ok |-> TRUE,
                   configured |-> [github_client_id |-> HAS_GITHUB_CLIENT_ID,
                                   github_client_secret |-> HAS_GITHUB_CLIENT_SECRET,
                                   crypto |-> HAS_CRYPTO_CONFIG]],
             Keep, Keep, 0)

Handle(rq, t) ==
    CASE rq.route = "GET /api/me" -> HandleMe(rq, t)
      [] rq.route = "GET /api/health" -> HandleHealth(rq, t)
      [] rq.route = "POST /api/select-repo" -> HandleSelectRepo(rq, t)
      [] rq.route = "POST /api/logout" -> HandleLogout(rq, t)
      [] OTHER -> HandleGuarded(rq, t)

\* ------------------------------------------------------------- the client
SetCookie(old, directive) ==
    IF directive = Keep THEN old
    ELSE IF directive = Clear THEN NoCookie
    ELSE directive

Receive(resp) ==
    jar' = [session |-> SetCookie(jar.session, resp.session),
            oauth |-> SetCookie(jar.oauth, resp.oauth)]

\* A client that does not honour the clearing of the state cookie keeps the value
\* and can send it again.
ReceiveOrRetain(resp) ==
    \/ Receive(resp)
    \/ /\ resp.oauth = Clear
       /\ jar.oauth # NoCookie
       /\ jar' = [session |-> SetCookie(jar.session, resp.session), oauth |-> jar.oauth]

SessionCookies == {jar.session, jar.oauth, NoCookie, Garbage}
OAuthCookies == {jar.oauth, jar.session, NoCookie, Garbage}
Hosts == {"valid", "missing", "malformed"}
Codes == {"", "code"}
States == {"", "forged"} \cup {ToString(n) : n \in 1..MaxStates}

RepoInputs == {Null, JStr(<<"o", "/", "r">>), JStr(<<"o", "r">>)}
BranchInputs == {Null, JStr(<<"d", "e", "v">>), JStr(<<".", "x">>)}

\* What the claims say about a request, evaluated on the request itself when it
\* is answered and recorded with the response.

\* The session cookie a request carries, by the claim's words: absent, corrupt,
\* expired, without a token, or valid.
CookieClass(cookie, t) ==
    IF cookie = NoCookie THEN "absent"
    ELSE IF cookie.kind # "token" THEN "corrupt"
    ELSE IF Has(cookie.payload, "issued_at") /\ cookie.payload.expires_at < t THEN "expired"
    ELSE IF ~Has(cookie.payload, "github_token") \/ cookie.payload.github_token = ""
         THEN "no_token"
    ELSE "valid"

\* The handshake conditions: a decryptable state cookie whose stored state is the
\* query state and has not expired, non-empty code and state, and a provider
\* that returned a token and an identity.
HandshakeComplete(rq, checkedAt, out) ==
    /\ rq.oauth.kind = "token"
    /\ Has(rq.oauth.payload, "state")
    /\ rq.oauth.payload.state = rq.state
    /\ checkedAt <= rq.oauth.payload.expires_at
    /\ rq.code # ""
    /\ rq.state # ""
    /\ out.access_token # ""
    /\ out.user # NoUser

\* What wrote the cookie value: writeSession, the state cookie of GET
\* /api/auth/url, or neither.
MintedBy(cookie) ==
    IF cookie.kind # "token" THEN "nothing"
    ELSE IF Has(cookie.payload, "github_token") THEN "writeSession"
    ELSE IF Has(cookie.payload, "state") THEN "auth/url"
    ELSE "nothing"

Answered(rq, resp, asAbsent, checkedAt, replay, out) ==
    last' = [route |-> rq.route,
             resp |-> resp,
             cookie |-> IF rq.route \in AuthRoutes THEN CookieClass(rq.session, now)
                        ELSE "absent",
             sameAsAbsent |-> (resp = asAbsent),
             replay |-> replay,
             handshake |-> HandshakeComplete(rq, checkedAt, out),
             sessionSent |-> MintedBy(rq.session),
             oauthSent |-> MintedBy(rq.oauth)]

NoOutcome == [exchange |-> "none", access_token |-> "", user |-> NoUser]
NoResponse == Response(0, [none |-> TRUE], Keep, Keep, 0)

\* ----------------------------------------------------------------- actions
AuthInit ==
    /\ now = 0
    /\ ticks = 0
    /\ HAS_CRYPTO_CONFIG \in BOOLEAN
    /\ HAS_GITHUB_CLIENT_ID \in BOOLEAN
    /\ HAS_GITHUB_CLIENT_SECRET \in BOOLEAN
    /\ jar = [session |-> NoCookie, oauth |-> NoCookie]
    /\ nextState = 0
    /\ consumed = {}
    /\ pend = Null
    /\ last = [route |-> "none", resp |-> NoResponse, cookie |-> "absent",
               sameAsAbsent |-> TRUE, replay |-> FALSE, handshake |-> FALSE,
               sessionSent |-> "nothing", oauthSent |-> "nothing"]

\* The clock is observed at the instants that matter to a cookie minted at the
\* start of the step: its expiry and the millisecond after.
TickSteps == {OAUTH_STATE_TTL_MS, OAUTH_STATE_TTL_MS + 1,
              SESSION_TTL_MS, SESSION_TTL_MS + 1}

Tick ==
    /\ ticks < MaxTicks
    /\ \E d \in TickSteps : now' = now + d
    /\ ticks' = ticks + 1
    /\ UNCHANGED authFrame
    /\ UNCHANGED <<HAS_CRYPTO_CONFIG, HAS_GITHUB_CLIENT_ID, HAS_GITHUB_CLIENT_SECRET,
                   jar, nextState, consumed, pend, last>>

AuthUrl ==
    /\ pend = Null
    /\ nextState < MaxStates
    /\ \E host \in Hosts :
         LET rq == Request("GET /api/auth/url", NoCookie, NoCookie, "", "", host, Null, Null)
             resp == HandleAuthUrl(rq, now, ToString(nextState + 1))
         IN /\ Answered(rq, resp, resp, now, FALSE, NoOutcome)
            /\ Receive(resp)
            /\ nextState' = IF resp.oauth = Keep THEN nextState ELSE nextState + 1
    /\ UNCHANGED authFrame
    /\ UNCHANGED <<now, ticks, HAS_CRYPTO_CONFIG, HAS_GITHUB_CLIENT_ID,
                   HAS_GITHUB_CLIENT_SECRET, consumed, pend>>

CallbackBegin ==
    /\ pend = Null
    /\ \E code \in Codes, state \in States, sc \in {jar.session, NoCookie},
          oc \in OAuthCookies,
          host \in Hosts :
         LET rq == Request("GET /api/auth/callback", sc, oc, code, state, host, Null, Null)
             resp == CallbackSync(rq, now)
             replay == state \in consumed
         IN IF resp = Null
            THEN /\ pend' = [req |-> rq, checkedAt |-> now, replay |-> replay]
                 /\ consumed' = consumed \cup {state}
                 /\ UNCHANGED <<jar, last>>
            ELSE /\ Answered(rq, resp, resp, now, replay, NoOutcome)
                 /\ ReceiveOrRetain(resp)
                 /\ UNCHANGED <<consumed, pend>>
    /\ UNCHANGED authFrame
    /\ UNCHANGED <<now, ticks, HAS_CRYPTO_CONFIG, HAS_GITHUB_CLIENT_ID,
                   HAS_GITHUB_CLIENT_SECRET, nextState>>

CallbackEnd ==
    /\ pend # Null
    /\ \E out \in ProviderOutcomes :
         LET resp == CallbackResume(pend.req, now, out)
         IN /\ Answered(pend.req, resp, resp, pend.checkedAt, pend.replay, out)
            /\ ReceiveOrRetain(resp)
    /\ pend' = Null
    /\ UNCHANGED authFrame
    /\ UNCHANGED <<now, ticks, HAS_CRYPTO_CONFIG, HAS_GITHUB_CLIENT_ID,
                   HAS_GITHUB_CLIENT_SECRET, nextState, consumed>>

Serve(rq) ==
    LET resp == Handle(rq, now)
    IN /\ pend = Null
       /\ Answered(rq, resp, Handle([rq EXCEPT !.session = NoCookie], now), now, FALSE,
                   NoOutcome)
       /\ Receive(resp)
       /\ UNCHANGED authFrame
       /\ UNCHANGED <<now, ticks, HAS_CRYPTO_CONFIG, HAS_GITHUB_CLIENT_ID,
                      HAS_GITHUB_CLIENT_SECRET, nextState, consumed, pend>>

Me == \E sc \in SessionCookies :
        Serve(Request("GET /api/me", sc, NoCookie, "", "", "valid", Null, Null))

Logout == Serve(Request("POST /api/logout", jar.session, jar.oauth, "", "", "valid", Null, Null))

Health == Serve(Request("GET /api/health", jar.session, jar.oauth, "", "", "valid", Null, Null))

SelectRepo == \E sc \in SessionCookies, repoName \in RepoInputs, branch \in BranchInputs :
        Serve(Request("POST /api/select-repo", sc, NoCookie, "", "", "valid", repoName, branch))

Guarded == \E sc \in SessionCookies :
        Serve(Request("guarded", sc, NoCookie, "", "", "valid", Null, Null))

AuthNext ==
    \/ Tick
    \/ AuthUrl
    \/ CallbackBegin
    \/ CallbackEnd
    \/ Me
    \/ Logout
    \/ Health
    \/ SelectRepo
    \/ Guarded

\* ------------------------------------------------------------- asset paths
ASSETS_ROOT_PATH == <<"a", "s", "s", "e", "t", "s">>

\* the {1,128} of the segment pattern
MaxSegmentLength == 128

RECURSIVE replaceAll(_, _, _)
replaceAll(s, from, to) ==
    IF s = <<>> THEN <<>>
    ELSE <<IF Head(s) = from THEN to ELSE Head(s)>> \o replaceAll(Tail(s), from, to)

startsWith(s, prefix) == Len(s) >= Len(prefix) /\ SubSeq(s, 1, Len(prefix)) = prefix

slice(s, start) == SubSeq(s, start + 1, Len(s))

\* replace(/^\/+/, "")
RECURSIVE stripLeadingSlashes(_)
stripLeadingSlashes(s) ==
    IF s # <<>> /\ Head(s) = "/" THEN stripLeadingSlashes(Tail(s)) ELSE s

\* replace(/\/+$/, "")
RECURSIVE stripTrailingSlashes(_)
stripTrailingSlashes(s) ==
    IF s # <<>> /\ s[Len(s)] = "/" THEN stripTrailingSlashes(SubSeq(s, 1, Len(s) - 1)) ELSE s

RECURSIVE mapTrim(_)
mapTrim(parts) == IF parts = <<>> THEN <<>> ELSE <<trim(Head(parts))>> \o mapTrim(Tail(parts))

NonEmpty(s) == s # <<>>

filterBoolean(parts) == SelectSeq(parts, NonEmpty)

RECURSIVE join(_, _)
join(parts, sep) ==
    IF parts = <<>> THEN <<>>
    ELSE IF Len(parts) = 1 THEN parts[1]
    ELSE parts[1] \o <<sep>> \o join(Tail(parts), sep)

\* /^[A-Za-z0-9._ -]{1,128}$/
SegmentChar(c) == c \in Lower \cup Upper \cup Digit \cup {".", "_", " ", "-"}

\* The segment test without the refusal of "." and "..".
sanitizePathSegment_DotsAllowed(value) ==
    IF value = <<>> THEN Null
    ELSE IF ~(/\ Len(value) <= MaxSegmentLength
              /\ \A i \in 1..Len(value) : SegmentChar(value[i])) THEN Null
    ELSE JStr(value)

sanitizePathSegment(value) ==
    IF value = <<>> \/ value = <<".">> \/ value = <<".", ".">> THEN Null
    ELSE IF ~(/\ Len(value) <= MaxSegmentLength
              /\ \A i \in 1..Len(value) : SegmentChar(value[i])) THEN Null
    ELSE JStr(value)

\* The tail both normalizers share: split, trim, drop the empty segments, validate
\* each one and join; onEmpty is what the caller answers for no segment at all.
validatedSegments(normalized, onEmpty) ==
    LET segments == filterBoolean(mapTrim(split(normalized, "/"))) IN
    IF Len(segments) = 0 THEN onEmpty
    ELSE IF \E i \in 1..Len(segments) : sanitizePathSegment(segments[i]) = Null THEN Null
    ELSE JStr(join(segments, "/"))

\* The asset root is dropped when it leads the path, then the slashes at both ends.
withoutRoot(s) ==
    stripTrailingSlashes(stripLeadingSlashes(
        IF startsWith(s, ASSETS_ROOT_PATH \o <<"/">>)
        THEN slice(s, Len(ASSETS_ROOT_PATH) + 1)
        ELSE s))

normalizeFolderPath(value) ==
    IF value = Null THEN JStr(<<>>)
    ELSE IF value.kind # "string" THEN Null
    ELSE LET trimmed == trim(value.s) IN
         IF trimmed = <<>> THEN JStr(<<>>)
         ELSE LET replaced == replaceAll(trimmed, "\\", "/") IN
              IF replaced = ASSETS_ROOT_PATH THEN JStr(<<>>)
              ELSE LET normalized == withoutRoot(replaced) IN
                   IF normalized = <<>> THEN JStr(<<>>)
                   ELSE validatedSegments(normalized, JStr(<<>>))

\* The asset normalizer treating a missing or empty value as the folder one does.
normalizeAssetRelativePath_AsFolder(value) == normalizeFolderPath(value)

normalizeAssetRelativePath(value) ==
    IF value = Null \/ value.kind # "string" THEN Null
    ELSE LET replaced == replaceAll(trim(value.s), "\\", "/") IN
         IF replaced = <<>> THEN Null
         ELSE IF replaced = ASSETS_ROOT_PATH THEN Null
         ELSE LET normalized == withoutRoot(replaced) IN
              IF normalized = <<>> THEN Null
              ELSE validatedSegments(normalized, Null)

parentFolderPath(path) ==
    LET lastSlashIndex == lastIndexOf(path, "/") IN
    IF lastSlashIndex = 0 THEN <<>> ELSE SubSeq(path, 1, lastSlashIndex - 1)

fileNameFromPath(path) ==
    LET lastSlashIndex == lastIndexOf(path, "/") IN
    IF lastSlashIndex = 0 THEN path ELSE SubSeq(path, lastSlashIndex + 1, Len(path))

joinAssetRepoPath(relativePath) ==
    IF relativePath # <<>> THEN ASSETS_ROOT_PATH \o <<"/">> \o relativePath
    ELSE ASSETS_ROOT_PATH

getRepoSelection(session) ==
    IF session.selected_repo = Null \/ session.selected_repo = JStr(<<>>) THEN Null
    ELSE LET parsed == parseRepoFullName(session.selected_repo) IN
         IF parsed = Null THEN Null
         ELSE LET named == parseBranchName(IF session.selected_branch = Null
                                           THEN JStr(<<>>)
                                           ELSE session.selected_branch)
              IN [kind |-> "selection", owner |-> parsed.owner, repo |-> parsed.repo,
                  branch |-> IF named = Null THEN JStr(<<"m", "a", "i", "n">>) ELSE named]

\* ------------------------------------------------- the codec on one token
CodecIdle ==
    codec = [pc |-> "idle", payload |-> Null, token |-> <<>>, result |-> Null,
             clean |-> TRUE]

RECURSIVE ByteSeqs(_)
ByteSeqs(n) ==
    IF n = 0 THEN {<<>>}
    ELSE ByteSeqs(n - 1) \cup {<<b>> \o t : b \in Byte, t \in {x \in ByteSeqs(n - 1) : Len(x) = n - 1}}

Ivs == {iv \in ByteSeqs(IvBytes) : Len(iv) = IvBytes}

\* encryptPayload(payload) with the nonce it drew.
CodecEncrypt ==
    /\ codec.pc = "idle"
    /\ \E payload \in JsonValues(MaxDepth), iv \in Ivs :
         codec' = [pc |-> "sealed", payload |-> payload,
                   token |-> encryptPayload(payload, iv), result |-> Null, clean |-> TRUE]
    /\ UNCHANGED codecFrame

\* A token that holds, under the key, a plaintext that is not JSON.
CodecSealRaw ==
    /\ codec.pc = "idle"
    /\ \E plain \in ByteSeqs(MaxRawLen), iv \in Ivs :
         /\ JSONparse(plain) = SyntaxError
         /\ codec' = [pc |-> "sealed", payload |-> Null, token |-> Sealed(plain, iv),
                      result |-> Null, clean |-> FALSE]
    /\ UNCHANGED codecFrame

\* One character of a segment replaced by the other letter.
TamperFlip ==
    /\ codec.pc = "sealed" /\ codec.clean
    /\ \E i \in 1..Len(codec.token) :
         /\ codec.token[i] # "."
         /\ codec' = [codec EXCEPT
                         !.token = [codec.token EXCEPT ![i] = IF @ = "A" THEN "B" ELSE "A"],
                         !.clean = FALSE]
    /\ UNCHANGED codecFrame

\* The token cut short.
TamperTruncate ==
    /\ codec.pc = "sealed" /\ codec.clean
    /\ \E n \in 0..(Len(codec.token) - 1) :
         codec' = [codec EXCEPT !.token = SubSeq(codec.token, 1, n), !.clean = FALSE]
    /\ UNCHANGED codecFrame

\* A fourth segment added after the ciphertext.
TamperAppendSegment ==
    /\ codec.pc = "sealed" /\ codec.clean
    /\ \E extra \in {<<>>, <<"A">>, <<"A", "B">>} :
         codec' = [codec EXCEPT !.token = codec.token \o <<".">> \o extra,
                                !.clean = FALSE]
    /\ UNCHANGED codecFrame

CodecDecrypt ==
    /\ codec.pc = "sealed"
    /\ codec' = [codec EXCEPT !.pc = "opened", !.result = decryptPayload(codec.token)]
    /\ UNCHANGED codecFrame

CodecNext ==
    \/ CodecEncrypt
    \/ CodecSealRaw
    \/ TamperFlip
    \/ TamperTruncate
    \/ TamperAppendSegment
    \/ CodecDecrypt

\* ------------------------------------------ the repository behind the GitHub API
Absent == [type |-> "absent"]
Dir == [type |-> "dir"]
\* A file the contents API returns with its base64 text; sha stands for the blob id.
File(n) == [type |-> "file", content |-> n, encoding |-> "base64", sha |-> <<ToString(n)>>]
\* A file too large for the contents API to inline: no content, encoding "none".
LargeFile == [type |-> "file", content |-> 0, encoding |-> "none", sha |-> <<"0">>]

RepoValues == {Absent, Dir, LargeFile} \cup {File(n) : n \in 1..MaxBlobs}

Bs == "\\"

\* body.path and body.destination_folder of the move requests
MovePathInputs ==
    {Null,
     JStr(<<"x">>),
     JStr(<<" ", "a", Bs, "x">>),
     JStr(<<"a", "s", "s", "e", "t", "s", "/", "a", "/", "/", "x", "/">>),
     JStr(<<"a", "/", ".", ".", "/", "x">>),
     JStr(<<"a", "s", "s", "e", "t", "s">>)}

MoveFolderInputs ==
    {Null,
     JStr(<<"a">>),
     JStr(<<"/", "a", "/">>),
     JStr(<<"a", "s", "s", "e", "t", "s">>),
     JStr(<<"b", " ">>),
     JStr(<<"a", "/", "*">>)}

SourcePaths ==
    {normalizeAssetRelativePath(p).s :
        p \in {q \in MovePathInputs : normalizeAssetRelativePath(q) # Null}}

FolderPaths ==
    {normalizeFolderPath(f).s : f \in {g \in MoveFolderInputs : normalizeFolderPath(g) # Null}}

targetPathOf(destinationFolder, fileName) ==
    IF destinationFolder # <<>> THEN destinationFolder \o <<"/">> \o fileName ELSE fileName

RepoPaths ==
    {joinAssetRepoPath(p) :
        p \in SourcePaths \cup
              {targetPathOf(f, fileNameFromPath(s)) : f \in FolderPaths, s \in SourcePaths}}

\* What the repository holds at a path; paths the model does not follow hold nothing.
entryAt(path) == IF path \in DOMAIN repo THEN repo[path] ELSE Absent

\* octokit.repos.getContent: the entry, a 404 for none, or any other failure.
getContent(path) ==
    {[status |-> 500, data |-> Absent]} \cup
    (IF entryAt(path) = Absent THEN {[status |-> 404, data |-> Absent]}
     ELSE {[status |-> 200, data |-> entryAt(path)]})

\* octokit.repos.createOrUpdateFileContents without sha: creates the file, is
\* refused (422) where one exists, or fails otherwise.
createOrUpdateFileContents(path) ==
    {[status |-> 500]} \cup
    (IF entryAt(path) = Absent THEN {[status |-> 201]} ELSE {[status |-> 422]})

\* octokit.repos.deleteFile with a sha: deletes the file of that sha, answers 404
\* where there is no file and 409 where the sha is another, or fails otherwise.
deleteFile(path, sha) ==
    {[status |-> 500]} \cup
    (IF entryAt(path).type # "file" THEN {[status |-> 404]}
     ELSE IF entryAt(path).sha = sha THEN {[status |-> 200]}
     ELSE {[status |-> 409]})

\* The clients whose requests to the repository routes are followed.
Clients == {1, 2}

\* No request to the other repository routes is in hand.
ApiQuiet == \A c \in Clients : api[c].pc = "idle"

\* ------------------------------------------------------ POST /api/assets/move
MoveRequest(session, path, destination_folder) ==
    [route |-> "POST /api/assets/move", session |-> session, path |-> path,
     destination_folder |-> destination_folder]

Stopped(resp) ==
    [resp |-> resp, sourcePath |-> Null, destinationFolder |-> Null, targetPath |-> Null]

\* The handler without the test of target against source.
MoveSync_NoSameCheck(rq, t) ==
    LET guard == HandleGuarded(rq, t) IN
    IF guard.status # 0 THEN Stopped(guard)
    ELSE IF getRepoSelection(guard.body.session) = Null
    THEN Stopped(Response(400, Err("Select a repository before moving assets."), Keep, Keep, 0))
    ELSE LET sourcePath == normalizeAssetRelativePath(rq.path)
             destinationFolder == normalizeFolderPath(rq.destination_folder)
         IN IF sourcePath = Null
            THEN Stopped(Response(400, Err("Invalid source asset path."), Keep, Keep, 0))
            ELSE IF destinationFolder = Null
            THEN Stopped(Response(400, Err("Invalid destination folder path."), Keep, Keep, 0))
            ELSE [resp |-> Null, sourcePath |-> sourcePath,
                  destinationFolder |-> destinationFolder,
                  targetPath |-> JStr(targetPathOf(destinationFolder.s,
                                                   fileNameFromPath(sourcePath.s)))]

\* The handler up to its first await: the response it gives at once, or resp Null
\* and the paths it goes on with.
MoveSync(rq, t) ==
    LET guard == HandleGuarded(rq, t) IN
    IF guard.status # 0 THEN Stopped(guard)
    ELSE IF getRepoSelection(guard.body.session) = Null
    THEN Stopped(Response(400, Err("Select a repository before moving assets."), Keep, Keep, 0))
    ELSE LET sourcePath == normalizeAssetRelativePath(rq.path)
             destinationFolder == normalizeFolderPath(rq.destination_folder)
         IN IF sourcePath = Null
            THEN Stopped(Response(400, Err("Invalid source asset path."), Keep, Keep, 0))
            ELSE IF destinationFolder = Null
            THEN Stopped(Response(400, Err("Invalid destination folder path."), Keep, Keep, 0))
            ELSE LET fileName == fileNameFromPath(sourcePath.s)
                     targetPath == JStr(targetPathOf(destinationFolder.s, fileName))
                 IN [resp |-> IF targetPath = sourcePath
                              THEN Response(400, Err("Source and destination are the same."),
                                            Keep, Keep, 0)
                              ELSE Null,
                     sourcePath |-> sourcePath,
                     destinationFolder |-> destinationFolder,
                     targetPath |-> targetPath]

MoveFailed == Err("Failed to move asset.")

\* The target lookup that takes an existing target for a free one.
MoveAfterTargetLookup_Overwrite(out) ==
    IF out.status \in {200, 404} THEN [pc |-> "readSource", status |-> 0, body |-> MoveFailed]
    ELSE [pc |-> "done", status |-> 500, body |-> MoveFailed]

\* The handler answering a target that exists as a bad request.
MoveAfterTargetLookup_BadRequest(out) ==
    IF out.status = 200
    THEN [pc |-> "done", status |-> 400,
          body |-> Err("A file already exists in the destination folder.")]
    ELSE IF out.status # 404 THEN [pc |-> "done", status |-> 500, body |-> MoveFailed]
    ELSE [pc |-> "readSource", status |-> 0, body |-> MoveFailed]

\* What the handler does with the answer to the lookup of the target.
MoveAfterTargetLookup(out) ==
    IF out.status = 200
    THEN [pc |-> "done", status |-> 409,
          body |-> Err("A file already exists in the destination folder.")]
    ELSE IF out.status # 404 THEN [pc |-> "done", status |-> 500, body |-> MoveFailed]
    ELSE [pc |-> "readSource", status |-> 0, body |-> MoveFailed]

\* The handler that, the source read, deletes it without writing the target first.
MoveAfterSourceRead_DeleteFirst(out) ==
    IF out.status # 200 THEN [pc |-> "done", status |-> 500, body |-> MoveFailed]
    ELSE IF out.data.type # "file"
    THEN [pc |-> "done", status |-> 400, body |-> Err("Source path must be a file.")]
    ELSE IF out.data.content = 0 \/ out.data.encoding # "base64"
    THEN [pc |-> "done", status |-> 500, body |-> Err("Could not read source file content.")]
    ELSE [pc |-> "delete", status |-> 0, body |-> MoveFailed]

\* What the handler does with the answer to the read of the source.
MoveAfterSourceRead(out) ==
    IF out.status # 200 THEN [pc |-> "done", status |-> 500, body |-> MoveFailed]
    ELSE IF out.data.type # "file"
    THEN [pc |-> "done", status |-> 400, body |-> Err("Source path must be a file.")]
    ELSE IF out.data.content = 0 \/ out.data.encoding # "base64"
    THEN [pc |-> "done", status |-> 500, body |-> Err("Could not read source file content.")]
    ELSE [pc |-> "write", status |-> 0, body |-> MoveFailed]

\* A signed-in user with a selected repository, one without, and nobody.
MoveSessions ==
    {NoCookie,
     writeSession([github_token |-> "gho", username |-> "u", avatar_url |-> "a",
                   selected_repo |-> JStr(<<"o", "/", "r">>), selected_branch |-> Null], 0),
     writeSession([github_token |-> "gho", username |-> "u", avatar_url |-> "a",
                   selected_repo |-> Null, selected_branch |-> Null], 0)}

MoveIdleValue ==
    [pc |-> "idle", sourcePath |-> Null, destinationFolder |-> Null, targetPath |-> Null,
     lookup |-> "none", sourceFile |-> Absent, sourceStatus |-> 0, calls |-> <<>>,
     resp |-> NoResponse]

MoveIdle ==
    /\ repo = [p \in RepoPaths |-> Absent]
    /\ before = repo
    /\ mv = MoveIdleValue

MoveInit ==
    /\ repo \in [RepoPaths -> RepoValues]
    /\ before = repo
    /\ mv = MoveIdleValue

Called(op, path) == Append(mv.calls, [op |-> op, path |-> path])

\* The step's outcome: the next await, or the response that ends the request.
MoveStep(nxt, calls) ==
    [mv EXCEPT !.pc = nxt.pc,
               !.calls = calls,
               !.resp = IF nxt.pc = "done"
                        THEN Response(nxt.status, nxt.body, Keep, Keep, Len(calls))
                        ELSE NoResponse]

MoveBegin ==
    /\ mv.pc = "idle"
    /\ ApiQuiet
    /\ \E session \in MoveSessions, path \in MovePathInputs, folder \in MoveFolderInputs :
         LET r == MoveSync(MoveRequest(session, path, folder), now) IN
         mv' = [MoveIdleValue EXCEPT
                  !.pc = IF r.resp = Null THEN "checkTarget" ELSE "done",
                  !.sourcePath = r.sourcePath,
                  !.destinationFolder = r.destinationFolder,
                  !.targetPath = r.targetPath,
                  !.resp = IF r.resp = Null THEN NoResponse ELSE r.resp]
    /\ before' = repo
    /\ UNCHANGED repo
    /\ UNCHANGED moveFrame

MoveCheckTarget ==
    /\ mv.pc = "checkTarget"
    /\ LET targetRepoPath == joinAssetRepoPath(mv.targetPath.s) IN
       \E out \in getContent(targetRepoPath) :
         mv' = [MoveStep(MoveAfterTargetLookup(out), Called("getContent", targetRepoPath))
                  EXCEPT !.lookup = IF out.status = 200 THEN "found"
                                    ELSE IF out.status = 404 THEN "missing" ELSE "error"]
    /\ UNCHANGED <<repo, before>>
    /\ UNCHANGED moveFrame

MoveReadSource ==
    /\ mv.pc = "readSource"
    /\ LET sourceRepoPath == joinAssetRepoPath(mv.sourcePath.s) IN
       \E out \in getContent(sourceRepoPath) :
         mv' = [MoveStep(MoveAfterSourceRead(out), Called("getContent", sourceRepoPath))
                  EXCEPT !.sourceFile = out.data, !.sourceStatus = out.status]
    /\ UNCHANGED <<repo, before>>
    /\ UNCHANGED moveFrame

MoveWrite ==
    /\ mv.pc = "write"
    /\ LET targetRepoPath == joinAssetRepoPath(mv.targetPath.s)
           calls == Called("createOrUpdateFileContents", targetRepoPath)
       IN \E out \in createOrUpdateFileContents(targetRepoPath) :
            IF out.status = 201
            THEN /\ repo' = [repo EXCEPT ![targetRepoPath] = File(mv.sourceFile.content)]
                 /\ mv' = MoveStep([pc |-> "delete", status |-> 0, body |-> MoveFailed], calls)
            ELSE /\ mv' = MoveStep([pc |-> "done", status |-> 500, body |-> MoveFailed], calls)
                 /\ UNCHANGED repo
    /\ UNCHANGED before
    /\ UNCHANGED moveFrame

MoveDelete ==
    /\ mv.pc = "delete"
    /\ LET sourceRepoPath == joinAssetRepoPath(mv.sourcePath.s)
           calls == Called("deleteFile", sourceRepoPath)
       IN \E out \in deleteFile(sourceRepoPath, mv.sourceFile.sha) :
            IF out.status = 200
            THEN /\ repo' = [repo EXCEPT ![sourceRepoPath] = Absent]
                 /\ mv' = MoveStep([pc |-> "done", status |-> 200,
                                    body |-> [success |-> TRUE, path |-> mv.targetPath,
                                              folder |-> mv.destinationFolder]], calls)
            ELSE /\ mv' = MoveStep([pc |-> "done", status |-> 500, body |-> MoveFailed], calls)
                 /\ UNCHANGED repo
    /\ UNCHANGED before
    /\ UNCHANGED moveFrame

\* The response is out; the next request finds the repository as this one left it.
MoveEnd ==
    /\ mv.pc = "done"
    /\ mv' = MoveIdleValue
    /\ before' = repo
    /\ UNCHANGED repo
    /\ UNCHANGED moveFrame

MoveNext ==
    \/ MoveBegin
    \/ MoveCheckTarget
    \/ MoveReadSource
    \/ MoveWrite
    \/ MoveDelete
    \/ MoveEnd

\* ------------------------------------------------------- the asset inventory
\* The folder itself, without the chain of its parents.
addFolderOnly(target, folderPath) ==
    IF folderPath = <<>> THEN target ELSE target \cup {folderPath}

RECURSIVE addFolderWithAncestors(_, _)
addFolderWithAncestors(target, folderPath) ==
    IF folderPath = <<>> THEN target
    ELSE addFolderWithAncestors(target \cup {folderPath}, parentFolderPath(folderPath))

GITKEEP == <<".", "g", "i", "t", "k", "e", "e", "p">>

\* String.prototype.localeCompare on the characters the paths here are made of:
\* punctuation before letters, letters in alphabetical order.
Collation ==
    <<"-", ".", "/", "0", "1", "a", "b", "c", "e", "g", "i", "k", "n", "o", "p", "s", "t", "x",
      "y", "z">>

CharRank(c) == CHOOSE i \in 1..Len(Collation) : Collation[i] = c

RECURSIVE localeCompare(_, _)
localeCompare(a, b) ==
    IF a = <<>> /\ b = <<>> THEN 0
    ELSE IF a = <<>> THEN -1
    ELSE IF b = <<>> THEN 1
    ELSE IF Head(a) = Head(b) THEN localeCompare(Tail(a), Tail(b))
    ELSE IF CharRank(Head(a)) < CharRank(Head(b)) THEN -1 ELSE 1

\* Array.from(folderSet).sort((a, b) => a.localeCompare(b))
RECURSIVE sortedFolders(_)
sortedFolders(folderSet) ==
    IF folderSet = {} THEN <<>>
    ELSE LET first == CHOOSE x \in folderSet : \A y \in folderSet : localeCompare(x, y) <= 0
         IN <<first>> \o sortedFolders(folderSet \ {first})

\* files.sort((a, b) => a.path.localeCompare(b.path)), a stable sort
RECURSIVE insertFile(_, _)
insertFile(file, sorted) ==
    IF sorted = <<>> THEN <<file>>
    ELSE IF localeCompare(file.path, Head(sorted).path) < 0 THEN <<file>> \o sorted
    ELSE <<Head(sorted)>> \o insertFile(file, Tail(sorted))

RECURSIVE sortedFiles(_)
sortedFiles(files) ==
    IF files = <<>> THEN <<>>
    ELSE insertFile(files[Len(files)], sortedFiles(SubSeq(files, 1, Len(files) - 1)))

\* The loop of buildAssetInventory over the entries: the folder set it fills.
RECURSIVE folderSetOf(_)
folderSetOf(blobEntries) ==
    IF blobEntries = <<>> THEN {}
    ELSE addFolderWithAncestors(
             folderSetOf(SubSeq(blobEntries, 1, Len(blobEntries) - 1)),
             parentFolderPath(blobEntries[Len(blobEntries)].relativePath))

\* The loop that pushes a file for every entry, markers too.
RECURSIVE filesOf_KeepMarkers(_)
filesOf_KeepMarkers(blobEntries) ==
    IF blobEntries = <<>> THEN <<>>
    ELSE LET entry == blobEntries[Len(blobEntries)] IN
         Append(filesOf_KeepMarkers(SubSeq(blobEntries, 1, Len(blobEntries) - 1)),
                [name |-> fileNameFromPath(entry.relativePath), path |-> entry.relativePath,
                 folder |-> parentFolderPath(entry.relativePath),
                 sha |-> entry.sha, size |-> entry.size])

\* The same loop: the files it pushes, the markers skipped.
RECURSIVE filesOf(_)
filesOf(blobEntries) ==
    IF blobEntries = <<>> THEN <<>>
    ELSE LET entry == blobEntries[Len(blobEntries)]
             fileName == fileNameFromPath(entry.relativePath)
             rest == filesOf(SubSeq(blobEntries, 1, Len(blobEntries) - 1))
         IN IF fileName = GITKEEP THEN rest
            ELSE Append(rest, [name |-> fileName, path |-> entry.relativePath,
                               folder |-> parentFolderPath(entry.relativePath),
                               sha |-> entry.sha, size |-> entry.size])

folderRecord(folderPath) ==
    [path |-> folderPath,
     name |-> fileNameFromPath(folderPath),
     parent |-> IF parentFolderPath(folderPath) # <<>>
                THEN JStr(parentFolderPath(folderPath)) ELSE Null]

buildAssetInventory(blobEntries) ==
    LET folders == sortedFolders(folderSetOf(blobEntries)) IN
    [files |-> sortedFiles(filesOf(blobEntries)),
     folders |-> [i \in 1..Len(folders) |-> folderRecord(folders[i])]]

UnderRoot(relativePath) == ASSETS_ROOT_PATH \o <<"/">> \o relativePath

\* Nodes of the recursive tree GitHub returns for the branch.
TreeNodes ==
    {[type |-> "blob", path |-> UnderRoot(<<"x">>), sha |-> <<"1">>],
     [type |-> "blob", path |-> UnderRoot(<<"a", "/", "b", "/", "y">>), sha |-> <<"1">>],
     [type |-> "blob", path |-> UnderRoot(<<"a", "/">> \o GITKEEP), sha |-> <<"1">>],
     [type |-> "blob", path |-> UnderRoot(<<"c", "/", "e", "/", "k", "/", "z">>), sha |-> <<"1">>],
     [type |-> "tree", path |-> UnderRoot(<<"a">>), sha |-> <<"1">>],
     [type |-> "blob", path |-> <<"o", "/", "z">>, sha |-> <<"1">>],
     [type |-> "blob", path |-> UnderRoot(<<".", ".">>), sha |-> <<"1">>]}

\* One turn of the loop of getAssetBlobEntries: the entries with the node's entry
\* pushed, or as they were when the node is skipped.
pushTreeNode(entries, treeNode) ==
    IF treeNode.type # "blob" THEN entries
    ELSE IF treeNode.path = <<>> \/ treeNode.sha = <<>> THEN entries
    ELSE IF ~startsWith(treeNode.path, ASSETS_ROOT_PATH \o <<"/">>) THEN entries
    ELSE LET relativePath == normalizeAssetRelativePath(JStr(treeNode.path)) IN
         IF relativePath = Null THEN entries
         ELSE Append(entries, [repoPath |-> joinAssetRepoPath(relativePath.s),
                               relativePath |-> relativePath.s,
                               sha |-> treeNode.sha, size |-> 0])

NoInventory == [files |-> <<>>, folders |-> <<>>]

InvIdle == inv = [pc |-> "listing", seen |-> 0, blobEntries |-> <<>>, result |-> NoInventory]

\* getAssetBlobEntries takes the next node of the tree.
InvTreeNode ==
    /\ inv.pc = "listing"
    /\ inv.seen < MaxTreeNodes
    /\ \E treeNode \in TreeNodes :
         inv' = [inv EXCEPT !.seen = @ + 1,
                            !.blobEntries = pushTreeNode(inv.blobEntries, treeNode)]
    /\ UNCHANGED invFrame

InvBuild ==
    /\ inv.pc = "listing"
    /\ inv' = [inv EXCEPT !.pc = "built", !.result = buildAssetInventory(inv.blobEntries)]
    /\ UNCHANGED invFrame

InvNext ==
    \/ InvTreeNode
    \/ InvBuild

\* ------------------------------------------------ the normalizers on one input
NormChars == {"a", "/", Bs, " ", ".", "*"}

RECURSIVE CharSeqs(_)
CharSeqs(n) ==
    IF n = 0 THEN {<<>>}
    ELSE CharSeqs(n - 1) \cup
         {<<c>> \o t : c \in NormChars, t \in {x \in CharSeqs(n - 1) : Len(x) = n - 1}}

\* req.body.path, req.query.path, req.query.folder and the like: nothing, a value
\* that is no string, short strings with and without the asset root in front, and
\* a few longer paths.
NormInputs ==
    {Null, JNum}
    \cup {JStr(t) : t \in CharSeqs(MaxPathLen)}
    \cup {JStr(ASSETS_ROOT_PATH \o t) : t \in CharSeqs(MaxPathLen)}
    \cup {JStr(<<"a", "/", "b">>),
          JStr(<<"a", "/", "/", "b", "/">>),
          JStr(ASSETS_ROOT_PATH \o <<"/", "a", "/", ".", ".", "/", "b">>),
          JStr(ASSETS_ROOT_PATH \o <<"/">> \o ASSETS_ROOT_PATH \o <<"/", "a">>),
          JStr(<<" ", "a", " ", "b", " ", Bs, "c", "_", "-", "1", ".", "p", "n", "g">>)}

NormIdleValue == [pc |-> "idle", value |-> Null, folder |-> Null, asset |-> Null]

NormIdle == norm = NormIdleValue

NormInit == norm \in {[NormIdleValue EXCEPT !.pc = "given", !.value = v] : v \in NormInputs}

NormFolder ==
    /\ norm.pc = "given"
    /\ norm' = [norm EXCEPT !.pc = "folder", !.folder = normalizeFolderPath(norm.value)]
    /\ UNCHANGED normFrame

NormAsset ==
    /\ norm.pc = "folder"
    /\ norm' = [norm EXCEPT !.pc = "done", !.asset = normalizeAssetRelativePath(norm.value)]
    /\ UNCHANGED normFrame

NormNext ==
    \/ NormFolder
    \/ NormAsset

\* ------------------------------------------------------------- upload names
\* Any name but the empty one.
sanitizeAssetName_Unchecked(value) ==
    IF value.kind # "string" THEN Null
    ELSE IF trim(value.s) = <<>> THEN Null
    ELSE JStr(trim(value.s))

sanitizeAssetName(value) ==
    IF value.kind # "string" THEN Null
    ELSE LET trimmed == trim(value.s) IN
         IF trimmed = <<>> \/ trimmed = <<".">> \/ trimmed = <<".", ".">> THEN Null
         ELSE IF includes(trimmed, <<"/">>) \/ includes(trimmed, <<Bs>>) THEN Null
         ELSE JStr(trimmed)

LowerLetters == <<"a","b","c","d","e","f","g","h","i","j","k","l","m",
                  "n","o","p","q","r","s","t","u","v","w","x","y","z">>
UpperLetters == <<"A","B","C","D","E","F","G","H","I","J","K","L","M",
                  "N","O","P","Q","R","S","T","U","V","W","X","Y","Z">>

toLowerCase(s) ==
    [i \in 1..Len(s) |->
        IF s[i] \in Upper
        THEN LowerLetters[CHOOSE k \in 1..Len(UpperLetters) : UpperLetters[k] = s[i]]
        ELSE s[i]]

\* the {1,10} of the extension pattern
MaxExtensionLength == 10

extractExtensionFromName(name) ==
    IF name = Null \/ name.s = <<>> THEN Null
    ELSE LET lastDotIndex == lastIndexOf(name.s, ".") IN
         IF lastDotIndex <= 1 \/ lastDotIndex = Len(name.s) THEN Null
         ELSE LET extension == toLowerCase(SubSeq(name.s, lastDotIndex + 1, Len(name.s))) IN
              IF /\ Len(extension) <= MaxExtensionLength
                 /\ \A i \in 1..Len(extension) : extension[i] \in Lower \cup Digit
              THEN JStr(extension)
              ELSE Null

\* /^data:([^;,]+)[;,]/i
extractMimeType(value) ==
    IF value.kind # "string" THEN Null
    ELSE IF ~startsWith(toLowerCase(value.s), <<"d", "a", "t", "a", ":">>) THEN Null
    ELSE LET rest == slice(value.s, 5)
             ends == {i \in 1..Len(rest) : rest[i] \in {";", ","}}
         IN IF ends = {} THEN Null
            ELSE LET first == CHOOSE i \in ends : \A j \in ends : i <= j IN
                 IF first = 1 THEN Null
                 ELSE JStr(toLowerCase(SubSeq(rest, 1, first - 1)))

mimeToExt ==
    {<<<<"i", "m", "a", "g", "e", "/", "j", "p", "e", "g">>, <<"j", "p", "g">>>>,
     <<<<"i", "m", "a", "g", "e", "/", "p", "n", "g">>, <<"p", "n", "g">>>>,
     <<<<"i", "m", "a", "g", "e", "/", "g", "i", "f">>, <<"g", "i", "f">>>>,
     <<<<"i", "m", "a", "g", "e", "/", "w", "e", "b", "p">>, <<"w", "e", "b", "p">>>>,
     <<<<"i", "m", "a", "g", "e", "/", "s", "v", "g", "+", "x", "m", "l">>, <<"s", "v", "g">>>>,
     <<<<"v", "i", "d", "e", "o", "/", "m", "p", "4">>, <<"m", "p", "4">>>>,
     <<<<"v", "i", "d", "e", "o", "/", "w", "e", "b", "m">>, <<"w", "e", "b", "m">>>>,
     <<<<"a", "u", "d", "i", "o", "/", "m", "p", "e", "g">>, <<"m", "p", "3">>>>,
     <<<<"a", "u", "d", "i", "o", "/", "w", "a", "v">>, <<"w", "a", "v">>>>,
     <<<<"a", "u", "d", "i", "o", "/", "o", "g", "g">>, <<"o", "g", "g">>>>,
     <<<<"a", "p", "p", "l", "i", "c", "a", "t", "i", "o", "n", "/", "p", "d", "f">>, <<"p", "d", "f">>>>,
     <<<<"t", "e", "x", "t", "/", "p", "l", "a", "i", "n">>, <<"t", "x", "t">>>>,
     <<<<"a", "p", "p", "l", "i", "c", "a", "t", "i", "o", "n", "/", "j", "s", "o", "n">>, <<"j", "s", "o", "n">>>>}

\* mimeToExt is an object literal: besides its own keys a lookup finds what it
\* inherits from Object.prototype, and the template string of
\* generateAnonymousAssetName turns the value found into text.
inheritedByMimeToExt ==
    {<<<<"c", "o", "n", "s", "t", "r", "u", "c", "t", "o", "r">>,
       <<"f", "u", "n", "c", "t", "i", "o", "n", " ", "O", "b", "j", "e", "c", "t",
         "(", ")", " ", "{", " ", "[", "n", "a", "t", "i", "v", "e", " ", "c", "o",
         "d", "e", "]", " ", "}">>>>,
     <<<<"_", "_", "p", "r", "o", "t", "o", "_", "_">>,
       <<"[", "o", "b", "j", "e", "c", "t", " ", "O", "b", "j", "e", "c", "t", "]">>>>}

extensionFromMimeType(mimeType) ==
    IF mimeType = Null \/ mimeType.s = <<>> THEN Null
    ELSE IF \E row \in mimeToExt \cup inheritedByMimeToExt : row[1] = mimeType.s
    THEN JStr((CHOOSE row \in mimeToExt \cup inheritedByMimeToExt : row[1] = mimeType.s)[2])
    ELSE Null

\* baseName is `${Date.now()}-${crypto.randomBytes(8).toString("hex")}`.
generateAnonymousAssetName(originalName, encodedContent, baseName) ==
    LET fromName == extractExtensionFromName(originalName)
        extension == IF fromName # Null THEN fromName
                     ELSE extensionFromMimeType(extractMimeType(encodedContent))
    IN IF extension # Null /\ extension.s # <<>> THEN baseName \o <<".">> \o extension.s
       ELSE baseName

\* The payload taken whole where the content has no comma.
extractBase64Payload_PlainAllowed(value) ==
    IF value.kind # "string" THEN Null
    ELSE LET commaIndex == indexOf(value.s, ",") IN
         IF commaIndex = 0 THEN (IF value.s = <<>> THEN Null ELSE value)
         ELSE IF commaIndex = 1 \/ commaIndex = Len(value.s) THEN Null
         ELSE JStr(SubSeq(value.s, commaIndex + 1, Len(value.s)))

extractBase64Payload(value) ==
    IF value.kind # "string" THEN Null
    ELSE LET commaIndex == indexOf(value.s, ",") IN
         IF commaIndex <= 1 \/ commaIndex = Len(value.s) THEN Null
         ELSE JStr(SubSeq(value.s, commaIndex + 1, Len(value.s)))

\* ------------------------------------------------------- the asset requests
\* A request to one of the repository routes: query.folder or body.folder,
\* query.path or body.path, query.sha, params.name or body.name, body.content.
ApiRequest(route, session, path, folder, sha, name, content) ==
    [route |-> route, session |-> session, path |-> path, folder |-> folder,
     sha |-> sha, name |-> name, content |-> content]

\* A handler up to its first await: the response it gives at once, or the await
\* it goes on to with the repository path, sha and folder it has worked out.
Answer(resp) ==
    [resp |-> resp, pc |-> "done", target |-> <<>>, sha |-> <<>>, folder |-> <<>>,
     relative |-> <<>>]

Go(pc, target, sha, folder, relative) ==
    [resp |-> Null, pc |-> pc, target |-> target, sha |-> sha, folder |-> folder,
     relative |-> relative]

BadRequest(msg) == Response(400, Err(msg), Keep, Keep, 0)

EmptyListing(folder) ==
    [current_folder |-> folder, folders |-> <<>>, files |-> <<>>, all_folders |-> <<>>]

\* typeof req.query.sha === "string" ? req.query.sha.trim() : ""
shaParam(value) == IF value.kind = "string" THEN trim(value.s) ELSE <<>>

\* GET /api/repos
ReposSync(rq, t) ==
    LET guard == HandleGuarded(rq, t) IN
    IF guard.status # 0 THEN Answer(guard)
    ELSE Go("repos", <<>>, <<>>, <<>>, <<>>)

\* GET /api/assets going to the provider whatever the session has selected.
AssetsSync_ListsAnyway(rq, t) ==
    LET guard == HandleGuarded(rq, t) IN
    IF guard.status # 0 THEN Answer(guard)
    ELSE LET requestedFolder == normalizeFolderPath(rq.folder) IN
         IF requestedFolder = Null THEN Answer(BadRequest("Invalid folder path."))
         ELSE Go("list", <<>>, <<>>, requestedFolder.s, <<>>)

\* GET /api/assets
AssetsSync(rq, t) ==
    LET guard == HandleGuarded(rq, t) IN
    IF guard.status # 0 THEN Answer(guard)
    ELSE IF getRepoSelection(guard.body.session) = Null
    THEN Answer(Response(200, EmptyListing(<<>>), Keep, Keep, 0))
    ELSE LET requestedFolder == normalizeFolderPath(rq.folder) IN
         IF requestedFolder = Null THEN Answer(BadRequest("Invalid folder path."))
         ELSE Go("list", <<>>, <<>>, requestedFolder.s, <<>>)

\* GET /api/folders
FoldersSync(rq, t) ==
    LET guard == HandleGuarded(rq, t) IN
    IF guard.status # 0 THEN Answer(guard)
    ELSE IF getRepoSelection(guard.body.session) = Null
    THEN Answer(Response(200, [folders |-> <<>>], Keep, Keep, 0))
    ELSE Go("list", <<>>, <<>>, <<>>, <<>>)

\* POST /api/folders
FolderCreateSync(rq, t) ==
    LET guard == HandleGuarded(rq, t) IN
    IF guard.status # 0 THEN Answer(guard)
    ELSE IF getRepoSelection(guard.body.session) = Null
    THEN Answer(BadRequest("Select a repository before creating folders."))
    ELSE LET folderPath == normalizeFolderPath(rq.path) IN
         IF folderPath = Null \/ folderPath.s = <<>>
         THEN Answer(BadRequest("Folder path is required."))
         ELSE Go("write", joinAssetRepoPath(folderPath.s) \o <<"/">> \o GITKEEP, <<>>,
                 folderPath.s, <<>>)

\* DELETE /api/folders
FolderDeleteSync(rq, t) ==
    LET guard == HandleGuarded(rq, t) IN
    IF guard.status # 0 THEN Answer(guard)
    ELSE IF getRepoSelection(guard.body.session) = Null
    THEN Answer(BadRequest("Select a repository before deleting folders."))
    ELSE LET folderPath == normalizeFolderPath(rq.path) IN
         IF folderPath = Null \/ folderPath.s = <<>>
         THEN Answer(BadRequest("Folder path query param is required."))
         ELSE Go("list", <<>>, <<>>, folderPath.s, <<>>)

\* POST /api/upload storing the file under the name sent where it survives
\* sanitizeAssetName.
UploadSync_KeepsName(rq, t, baseName) ==
    LET guard == HandleGuarded(rq, t) IN
    IF guard.status # 0 THEN Answer(guard)
    ELSE IF getRepoSelection(guard.body.session) = Null
    THEN Answer(BadRequest("Select a repository before uploading."))
    ELSE LET folderPath == normalizeFolderPath(rq.folder) IN
         IF folderPath = Null THEN Answer(BadRequest("Invalid folder path."))
         ELSE LET originalName == sanitizeAssetName(rq.name)
                  base64Content == extractBase64Payload(rq.content)
              IN IF base64Content = Null \/ base64Content.s = <<>>
                 THEN Answer(BadRequest("Invalid upload payload."))
                 ELSE LET assetName ==
                              IF originalName # Null THEN originalName.s
                              ELSE generateAnonymousAssetName(originalName, rq.content,
                                                              baseName)
                          relativeAssetPath == targetPathOf(folderPath.s, assetName)
                      IN Go("write", joinAssetRepoPath(relativeAssetPath), <<>>,
                            folderPath.s, relativeAssetPath)

\* POST /api/upload; baseName is the stamp and random part of the stored name.
UploadSync(rq, t, baseName) ==
    LET guard == HandleGuarded(rq, t) IN
    IF guard.status # 0 THEN Answer(guard)
    ELSE IF getRepoSelection(guard.body.session) = Null
    THEN Answer(BadRequest("Select a repository before uploading."))
    ELSE LET folderPath == normalizeFolderPath(rq.folder) IN
         IF folderPath = Null THEN Answer(BadRequest("Invalid folder path."))
         ELSE LET originalName == sanitizeAssetName(rq.name)
                  base64Content == extractBase64Payload(rq.content)
              IN IF base64Content = Null \/ base64Content.s = <<>>
                 THEN Answer(BadRequest("Invalid upload payload."))
                 ELSE LET assetName == generateAnonymousAssetName(originalName, rq.content,
                                                                  baseName)
                          relativeAssetPath == targetPathOf(folderPath.s, assetName)
                      IN Go("write", joinAssetRepoPath(relativeAssetPath), <<>>,
                            folderPath.s, relativeAssetPath)

\* DELETE /api/assets
DeleteAssetSync(rq, t) ==
    LET guard == HandleGuarded(rq, t) IN
    IF guard.status # 0 THEN Answer(guard)
    ELSE IF getRepoSelection(guard.body.session) = Null
    THEN Answer(BadRequest("Select a repository before deleting assets."))
    ELSE LET assetPath == normalizeAssetRelativePath(rq.path) IN
         IF assetPath = Null \/ assetPath.s = <<>>
         THEN Answer(BadRequest("path query param is required."))
         ELSE IF shaParam(rq.sha) = <<>>
         THEN Answer(BadRequest("sha query param is required."))
         ELSE Go("delete", joinAssetRepoPath(assetPath.s), shaParam(rq.sha), <<>>,
                 assetPath.s)

\* DELETE /api/assets/:name
DeleteByNameSync(rq, t) ==
    LET guard == HandleGuarded(rq, t) IN
    IF guard.status # 0 THEN Answer(guard)
    ELSE IF getRepoSelection(guard.body.session) = Null
    THEN Answer(BadRequest("Select a repository before deleting assets."))
    ELSE LET assetName == sanitizeAssetName(rq.name) IN
         IF assetName = Null \/ assetName.s = <<>>
         THEN Answer(BadRequest("Invalid asset name."))
         ELSE IF shaParam(rq.sha) = <<>>
         THEN Answer(BadRequest("sha query param is required."))
         ELSE Go("delete", joinAssetRepoPath(assetName.s), shaParam(rq.sha), <<>>,
                 assetName.s)

\* ---- the provider's side of the listing
\* The paths of the branch's tree: what the repository holds and one blob that
\* is not under the assets root.
TreePaths == {p \in DOMAIN repo : repo[p] # Absent} \cup {<<"o", "/", "z">>}

treeNodeAt(path) ==
    IF entryAt(path).type = "file"
    THEN [type |-> "blob", path |-> path, sha |-> entryAt(path).sha]
    ELSE IF entryAt(path).type = "dir"
    THEN [type |-> "tree", path |-> path, sha |-> <<"t">>]
    ELSE [type |-> "blob", path |-> path, sha |-> <<"9">>]

\* octokit.git.getTree, recursive: the nodes in the order of their paths.
getTree ==
    LET paths == sortedFolders(TreePaths) IN
    [i \in 1..Len(paths) |-> treeNodeAt(paths[i])]

\* The loop of getAssetBlobEntries over the whole tree.
RECURSIVE blobEntriesOf(_)
blobEntriesOf(tree) ==
    IF tree = <<>> THEN <<>>
    ELSE pushTreeNode(blobEntriesOf(SubSeq(tree, 1, Len(tree) - 1)), tree[Len(tree)])

\* getAssetBlobEntries: getBranch, then getTree. Either call may fail, with 404
\* where the repository or the branch is not there and otherwise with another
\* status; n is the number of calls made.
getAssetBlobEntries ==
    {[status |-> st, calls |-> n, blobEntries |-> <<>>] : st \in {404, 500}, n \in {1, 2}}
    \cup {[status |-> 200, calls |-> 2, blobEntries |-> blobEntriesOf(getTree)]}

\* octokit.repos.listForAuthenticatedUser
listForAuthenticatedUser ==
    {[status |-> 500, data |-> <<>>],
     [status |-> 200, data |-> <<[full_name |-> <<"o", "/", "r">>, name |-> <<"r">>,
                                  private |-> FALSE,
                                  default_branch |-> <<"m", "a", "i", "n">>]>>]}

\* ---- the handlers after their awaits
Done(status, body) == [pc |-> "done", status |-> status, body |-> body, todo |-> <<>>]

\* GET /api/repos with the provider's answer
ReposListed(out) ==
    IF out.status = 200 THEN Done(200, out.data)
    ELSE Done(500, Err("Failed to fetch repos"))

\* GET /api/assets with the listing or its failure
AssetsListed(out, requestedFolder) ==
    IF out.status = 200
    THEN LET inventory == buildAssetInventory(out.blobEntries)
             IsChild(folder) ==
                 (IF folder.parent = Null THEN <<>> ELSE folder.parent.s) = requestedFolder
             IsHere(file) == file.folder = requestedFolder
             childFolders == SelectSeq(inventory.folders, IsChild)
         IN Done(200, [current_folder |-> requestedFolder,
                       folders |-> [i \in 1..Len(childFolders) |->
                                      [name |-> childFolders[i].name,
                                       path |-> childFolders[i].path]],
                       files |-> SelectSeq(inventory.files, IsHere),
                       all_folders |-> [i \in 1..Len(inventory.folders) |->
                                          inventory.folders[i].path]])
    ELSE IF out.status = 404 THEN Done(200, EmptyListing(requestedFolder))
    ELSE Done(500, Err("Failed to fetch assets"))

\* GET /api/folders with the listing or its failure
FoldersListed(out) ==
    IF out.status = 200
    THEN Done(200, [folders |-> buildAssetInventory(out.blobEntries).folders])
    ELSE IF out.status = 404 THEN Done(200, [folders |-> <<>>])
    ELSE Done(500, Err("Failed to fetch folders"))

\* The filter of DELETE /api/folders without the "/" after the folder's path.
entriesToDelete_BarePrefix(blobEntries, folderPath) ==
    LET Under(entry) == startsWith(entry.relativePath, folderPath) IN
    SelectSeq(blobEntries, Under)

\* blobEntries.filter((entry) => entry.relativePath.startsWith(prefix))
entriesToDelete(blobEntries, folderPath) ==
    LET prefix == folderPath \o <<"/">>
        Under(entry) == startsWith(entry.relativePath, prefix)
    IN SelectSeq(blobEntries, Under)

FolderDeleteFailed == Err("Failed to delete folder.")

\* DELETE /api/folders with the listing or its failure
FolderDeleteListed(out, folderPath) ==
    IF out.status # 200 THEN Done(500, FolderDeleteFailed)
    ELSE LET matched == entriesToDelete(out.blobEntries, folderPath) IN
         IF Len(matched) = 0 THEN Done(404, Err("Folder not found or empty."))
         ELSE [pc |-> "deleteNext", status |-> 0, body |-> FolderDeleteFailed,
               todo |-> matched]

Listed(route, out, folder) ==
    IF route = "GET /api/assets" THEN AssetsListed(out, folder)
    ELSE IF route = "GET /api/folders" THEN FoldersListed(out)
    ELSE FolderDeleteListed(out, folder)

\* The delete handlers answering success whatever the provider says.
AssetDeleted_SwallowsFailure(out) == Done(200, [success |-> TRUE])

\* DELETE /api/assets and DELETE /api/assets/:name with the provider's answer
AssetDeleted(out) ==
    IF out.status = 200 THEN Done(200, [success |-> TRUE])
    ELSE Done(500, Err("Delete failed"))

\* POST /api/folders and POST /api/upload with the provider's answer
Written(route, out, folder, relative) ==
    IF route = "POST /api/folders"
    THEN IF out.status = 201 THEN Done(200, [success |-> TRUE, path |-> folder])
         ELSE Done(500, Err("Failed to create folder."))
    ELSE IF out.status = 201
         THEN Done(200, [success |-> TRUE, name |-> fileNameFromPath(relative),
                         path |-> relative, folder |-> folder])
         ELSE Done(500, Err("Upload failed"))

\* ---- the requests in hand
ApiIdleValue ==
    [pc |-> "idle", route |-> "none", rq |-> Null, target |-> <<>>, sha |-> <<>>,
     folder |-> <<>>, relative |-> <<>>, todo |-> <<>>, matched |-> <<>>, upstream |-> 0, calls |-> <<>>,
     resp |-> NoResponse]

ApiIdle == api = [c \in Clients |-> ApiIdleValue]

\* ---- what the clients send
ApiSessions ==
    MoveSessions \cup
    {writeSession([github_token |-> "gho", username |-> "u", avatar_url |-> "a",
                   selected_repo |-> JStr(<<"o">>), selected_branch |-> Null], 0)}

ApiFolderInputs == {Null, JStr(<<>>), JStr(<<"a">>), JStr(<<"a", "/", "*">>), JNum}

ApiPathInputs ==
    {Null,
     JStr(<<"x">>),
     JStr(<<"a", "/", "x">>),
     JStr(<<"a", "/", "b", "/", "y">>),
     JStr(<<"a", "/", ".", ".", "/", "x">>)}

ShaInputs == {Null, JStr(<<" ">>), JStr(<<"1">>), JStr(<<"2", " ">>)}

NameInputs ==
    {Null, JStr(<<"x">>), JStr(<<"p", ".", "P", "N", "G">>), JStr(<<"a", "/", "x">>),
     JStr(<<".">>)}

ContentInputs ==
    {Null,
     JStr(<<"d", "a", "t", "a", ":", "i", "m", "a", "g", "e", "/", "p", "n", "g", ";",
            "b", "a", "s", "e", "6", "4", ",", "Q", "Q">>),
     JStr(<<",", "Q", "Q">>),
     JStr(<<"Q", "Q", ",">>)}

UploadFolderInputs == {Null, JStr(<<"a", "/", "*">>)}

\* `${Date.now()}-${crypto.randomBytes(8).toString("hex")}`
BaseNames == {<<"0", "-", "a", "b">>}

ApiPaths ==
    RepoPaths \cup {UnderRoot(<<"a", "/">> \o GITKEEP),
                    UnderRoot(<<"a", "/", "b", "/", "y">>),
                    UnderRoot(<<"a", "b", "/", "x">>)}

\* The repositories the requests start from: files and nothing else, but for one
\* path that may hold a directory or a file too large to inline.
ApiRepos ==
    {r \in [ApiPaths -> RepoValues] :
        \A p \in ApiPaths \ {UnderRoot(<<"a", "/", "x">>)} : r[p] \in {Absent, File(1)}}

ApiInit ==
    /\ repo \in ApiRepos
    /\ before = repo
    /\ mv = MoveIdleValue
    /\ api = [c \in Clients |-> ApiIdleValue]

\* The repositories the two deletes start from: any contents at the paths the
\* requests name, and a blob at a path they do not.
DeleteRepos ==
    {r \in ApiRepos :
        /\ r[UnderRoot(<<"a", "b", "/", "x">>)] = File(1)
        /\ r[UnderRoot(<<"b", "/", "x">>)] = Absent
        /\ r[UnderRoot(<<"a", "/">> \o GITKEEP)] = Absent}

DeleteInit ==
    /\ repo \in DeleteRepos
    /\ before = repo
    /\ mv = MoveIdleValue
    /\ api = [c \in Clients |-> ApiIdleValue]

\* ---- the steps
\* The handler of the request's route runs to its first await or to its response.
ApiStart(c, rq, plan) ==
    /\ api[c].pc = "idle"
    /\ mv.pc = "idle"
    /\ api' = [api EXCEPT ![c] =
                 [ApiIdleValue EXCEPT
                    !.pc = plan.pc, !.route = rq.route, !.rq = rq, !.target = plan.target,
                    !.sha = plan.sha, !.folder = plan.folder, !.relative = plan.relative,
                    !.resp = IF plan.resp = Null THEN NoResponse ELSE plan.resp]]
    /\ before' = IF ApiQuiet THEN repo ELSE before
    /\ UNCHANGED <<repo, mv>>
    /\ UNCHANGED apiFrame

\* The request of client c after an await: the calls made, the provider's
\* status, and the next await or the response.
Awaited(c, nxt, made, status) ==
    [api EXCEPT ![c] =
       [@ EXCEPT !.pc = nxt.pc,
                 !.todo = nxt.todo,
                 !.calls = @ \o made,
                 !.upstream = status,
                 !.resp = IF nxt.pc = "done"
                          THEN Response(nxt.status, nxt.body, Keep, Keep,
                                        Len(api[c].calls \o made))
                          ELSE NoResponse]]

ListRepos(c) ==
    \E session \in ApiSessions :
        LET rq == ApiRequest("GET /api/repos", session, Null, Null, Null, Null, Null) IN
        ApiStart(c, rq, ReposSync(rq, now))

ListAssets(c) ==
    \E session \in ApiSessions, folder \in ApiFolderInputs :
        LET rq == ApiRequest("GET /api/assets", session, Null, folder, Null, Null, Null) IN
        ApiStart(c, rq, AssetsSync(rq, now))

ListFolders(c) ==
    \E session \in ApiSessions :
        LET rq == ApiRequest("GET /api/folders", session, Null, Null, Null, Null, Null) IN
        ApiStart(c, rq, FoldersSync(rq, now))

CreateFolder(c) ==
    \E session \in ApiSessions, path \in ApiFolderInputs :
        LET rq == ApiRequest("POST /api/folders", session, path, Null, Null, Null, Null) IN
        ApiStart(c, rq, FolderCreateSync(rq, now))

DeleteFolder(c) ==
    \E session \in ApiSessions, path \in ApiFolderInputs :
        LET rq == ApiRequest("DELETE /api/folders", session, path, Null, Null, Null, Null) IN
        ApiStart(c, rq, FolderDeleteSync(rq, now))

Upload(c) ==
    \E session \in ApiSessions, folder \in UploadFolderInputs, name \in NameInputs,
       content \in ContentInputs, baseName \in BaseNames :
        LET rq == ApiRequest("POST /api/upload", session, Null, folder, Null, name, content) IN
        ApiStart(c, rq, UploadSync(rq, now, baseName))

DeleteAsset(c) ==
    \E session \in ApiSessions, path \in ApiPathInputs, sha \in ShaInputs :
        LET rq == ApiRequest("DELETE /api/assets", session, path, Null, sha, Null, Null) IN
        ApiStart(c, rq, DeleteAssetSync(rq, now))

DeleteAssetByName(c) ==
    \E session \in ApiSessions, name \in NameInputs, sha \in ShaInputs :
        LET rq == ApiRequest("DELETE /api/assets/:name", session, Null, Null, sha, name, Null) IN
        ApiStart(c, rq, DeleteByNameSync(rq, now))

\* The answer to listForAuthenticatedUser arrives.
ApiListRepos(c) ==
    /\ api[c].pc = "repos"
    /\ \E out \in listForAuthenticatedUser :
         api' = Awaited(c, ReposListed(out),
                        <<[op |-> "listForAuthenticatedUser", path |-> <<>>]>>, out.status)
    /\ UNCHANGED <<repo, before, mv>>
    /\ UNCHANGED apiFrame

\* getAssetBlobEntries returns or throws.
ApiList(c) ==
    /\ api[c].pc = "list"
    /\ \E out \in getAssetBlobEntries :
         LET nxt == Listed(api[c].route, out, api[c].folder)
             made == IF out.calls = 1 THEN <<[op |-> "getBranch", path |-> <<>>]>>
                     ELSE <<[op |-> "getBranch", path |-> <<>>],
                            [op |-> "getTree", path |-> <<>>]>>
         IN api' = [Awaited(c, nxt, made, out.status) EXCEPT ![c].matched = nxt.todo]
    /\ UNCHANGED <<repo, before, mv>>
    /\ UNCHANGED apiFrame

\* The answer to createOrUpdateFileContents arrives.
ApiWrite(c) ==
    /\ api[c].pc = "write"
    /\ LET target == api[c].target IN
       \E out \in createOrUpdateFileContents(target) :
         /\ api' = Awaited(c, Written(api[c].route, out, api[c].folder, api[c].relative),
                           <<[op |-> "createOrUpdateFileContents", path |-> target]>>,
                           out.status)
         /\ repo' = IF out.status = 201
                    THEN [p \in DOMAIN repo \cup {target} |->
                            IF p = target THEN File(1) ELSE repo[p]]
                    ELSE repo
    /\ UNCHANGED <<before, mv>>
    /\ UNCHANGED apiFrame

\* The answer to the deleteFile of DELETE /api/assets or /api/assets/:name arrives.
ApiDelete(c) ==
    /\ api[c].pc = "delete"
    /\ LET target == api[c].target IN
       \E out \in deleteFile(target, api[c].sha) :
         /\ api' = Awaited(c, AssetDeleted(out),
                           <<[op |-> "deleteFile", path |-> target]>>, out.status)
         /\ repo' = IF out.status = 200 THEN [repo EXCEPT ![target] = Absent] ELSE repo
    /\ UNCHANGED <<before, mv>>
    /\ UNCHANGED apiFrame

\* The loop going on to the next entry when a deleteFile has failed.
FolderEntryDeleted_GoesOn(out, todo, matched) ==
    IF Len(todo) = 1
    THEN IF out.status # 200 THEN Done(500, FolderDeleteFailed)
         ELSE Done(200, [success |-> TRUE, deleted |-> Len(matched)])
    ELSE [pc |-> "deleteNext", status |-> 0, body |-> FolderDeleteFailed,
          todo |-> Tail(todo)]

\* One turn of the loop of DELETE /api/folders: the handler after the answer to
\* the deleteFile of the first entry left.
FolderEntryDeleted(out, todo, matched) ==
    IF out.status # 200 THEN Done(500, FolderDeleteFailed)
    ELSE IF Len(todo) = 1 THEN Done(200, [success |-> TRUE, deleted |-> Len(matched)])
    ELSE [pc |-> "deleteNext", status |-> 0, body |-> FolderDeleteFailed,
          todo |-> Tail(todo)]

ApiDeleteNext(c) ==
    /\ api[c].pc = "deleteNext"
    /\ LET entry == Head(api[c].todo) IN
       \E out \in deleteFile(entry.repoPath, entry.sha) :
         /\ api' = Awaited(c, FolderEntryDeleted(out, api[c].todo, api[c].matched),
                           <<[op |-> "deleteFile", path |-> entry.repoPath]>>, out.status)
         /\ repo' = IF out.status = 200 THEN [repo EXCEPT ![entry.repoPath] = Absent]
                    ELSE repo
    /\ UNCHANGED <<before, mv>>
    /\ UNCHANGED apiFrame

\* The response is out; the next request finds the repository as this one left it.
ApiEnd(c) ==
    /\ api[c].pc = "done"
    /\ api' = [api EXCEPT ![c] = ApiIdleValue]
    /\ before' = repo
    /\ UNCHANGED <<repo, mv>>
    /\ UNCHANGED apiFrame

\* ---- POST /api/select-repo, on its own
SelectSessions == ApiSessions \cup {Garbage}

SelectRepoInputs ==
    RepoInputs \cup {JNum, JStr(<<" ", "o", "/", "r", " ">>),
                     JStr(<<"o", "/", "r", "/", "x">>), JStr(<<"/", "r">>)}

SelectBranchInputs ==
    BranchInputs \cup {JNum, JStr(<<>>), JStr(<<" ", "f", "/", "x", " ">>),
                       JStr(<<"a", ".", ".", "b">>)}

\* The request is answered in the step it arrives: the handler awaits nothing.
SelectRepoNow(c) ==
    \E session \in SelectSessions, repoName \in SelectRepoInputs,
       branch \in SelectBranchInputs :
        LET rq == Request("POST /api/select-repo", session, NoCookie, "", "", "valid",
                          repoName, branch)
        IN ApiStart(c, rq, Answer(HandleSelectRepo(rq, now)))

\* Time passes between two requests.
SelectTick == ApiQuiet /\ Tick

SelectNext ==
    \/ SelectRepoNow(1)
    \/ ApiEnd(1)
    \/ SelectTick

\* ---- POST /api/upload, on its own
UploadNames ==
    NameInputs \cup {JStr(<<"n", ".", "t", "a", "r", ".", "g", "z">>), JStr(<<".", "e", "n", "v">>), JStr(<<"x", ".">>), JNum}

UploadContents ==
    ContentInputs \cup
    {JNum, JStr(<<>>), JStr(<<"Q", "Q">>), JStr(<<"x", ",", "Q", ",", "Q">>),
     JStr(<<"D", "A", "T", "A", ":", "I", "m", "a", "g", "e", "/", "P", "N", "G", ",", "Q", "Q">>),
     JStr(<<"d", "a", "t", "a", ":", "t", "e", "x", "t", "/", "h", "t", "m", "l", ";", "x", ",", "Q", "Q">>),
     JStr(<<"d", "a", "t", "a", ":", "c", "o", "n", "s", "t", "r", "u", "c", "t", "o", "r", ";", "b", "a", "s", "e", "6", "4", ",", "Q", "Q">>),
     JStr(<<"d", "a", "t", "a", ":", ";", "b", "a", "s", "e", "6", "4", ",", "Q", "Q">>)}

UploadFolders == UploadFolderInputs \cup {JStr(<<"a">>)}

UploadSessions == MoveSessions

\* The files the uploads have created so far, but for the one that may be there
\* from the start.
Uploaded == {p \in DOMAIN repo \ ApiPaths : p # UnderRoot(<<"0", "-", "a", "b">>)}

\* The repositories the uploads start from: empty, or holding a file under the
\* name an upload with no extension will get.
UploadRepos ==
    {[p \in ApiPaths |-> Absent],
     [p \in ApiPaths \cup {UnderRoot(<<"0", "-", "a", "b">>)} |->
         IF p \in ApiPaths THEN Absent ELSE File(1)]}

UploadInit ==
    /\ repo \in UploadRepos
    /\ before = repo
    /\ mv = MoveIdleValue
    /\ api = [c \in Clients |-> ApiIdleValue]

UploadAny(c) ==
    \E session \in UploadSessions, folder \in UploadFolders, name \in UploadNames,
       content \in UploadContents, baseName \in BaseNames :
        LET rq == ApiRequest("POST /api/upload", session, Null, folder, Null, name, content)
        IN /\ Cardinality(Uploaded) < MaxUploads
           /\ ApiStart(c, rq, UploadSync(rq, now, baseName))

UploadNext ==
    \/ UploadAny(1)
    \/ ApiWrite(1)
    \/ ApiEnd(1)

\* One client, one request at a time, to any of the repository routes.
ApiNext ==
    \/ ListRepos(1)
    \/ ListAssets(1)
    \/ ListFolders(1)
    \/ CreateFolder(1)
    \/ DeleteFolder(1)
    \/ Upload(1)
    \/ DeleteAsset(1)
    \/ DeleteAssetByName(1)
    \/ ApiListRepos(1)
    \/ ApiList(1)
    \/ ApiWrite(1)
    \/ ApiDelete(1)
    \/ ApiDeleteNext(1)
    \/ ApiEnd(1)
    \/ MoveNext

\* The clients each send one DELETE /api/assets, in any interleaving.
DeleteNext ==
    \E c \in Clients :
        \/ DeleteAsset(c)
        \/ ApiDelete(c)

\* The configured, idle server of the specifications that exercise one component.
AuthIdle ==
    /\ now = 0
    /\ ticks = 0
    /\ HAS_CRYPTO_CONFIG = TRUE
    /\ HAS_GITHUB_CLIENT_ID = TRUE
    /\ HAS_GITHUB_CLIENT_SECRET = TRUE
    /\ jar = [session |-> NoCookie, oauth |-> NoCookie]
    /\ nextState = 0
    /\ consumed = {}
    /\ pend = Null
    /\ last = [route |-> "none", resp |-> NoResponse, cookie |-> "absent",
               sameAsAbsent |-> TRUE, replay |-> FALSE, handshake |-> FALSE,
               sessionSent |-> "nothing", oauthSent |-> "nothing"]

\* ----------------------------------------------------------- specifications
Init == AuthInit /\ CodecIdle /\ MoveIdle /\ InvIdle /\ NormIdle /\ ApiIdle

Next == AuthNext

Spec == Init /\ [][Next]_vars

CodecInit == AuthIdle /\ CodecIdle /\ MoveIdle /\ InvIdle /\ NormIdle /\ ApiIdle

SpecCodec == CodecInit /\ [][CodecNext]_vars

SpecMoveInit == AuthIdle /\ CodecIdle /\ MoveInit /\ InvIdle /\ NormIdle /\ ApiIdle

SpecMove == SpecMoveInit /\ [][MoveNext]_vars

InvInit == AuthIdle /\ CodecIdle /\ MoveIdle /\ InvIdle /\ NormIdle /\ ApiIdle

SpecInv == InvInit /\ [][InvNext]_vars

SpecNormInit == AuthIdle /\ CodecIdle /\ MoveIdle /\ InvIdle /\ NormInit /\ ApiIdle

SpecNorm == SpecNormInit /\ [][NormNext]_vars

SpecApiInit == AuthIdle /\ CodecIdle /\ ApiInit /\ InvIdle /\ NormIdle

SpecApi == SpecApiInit /\ [][ApiNext]_vars

SpecDeleteInit == AuthIdle /\ CodecIdle /\ DeleteInit /\ InvIdle /\ NormIdle

SpecDelete == SpecDeleteInit /\ [][DeleteNext]_vars

SpecUploadInit == AuthIdle /\ CodecIdle /\ UploadInit /\ InvIdle /\ NormIdle

SpecUpload == SpecUploadInit /\ [][UploadNext]_vars

SpecSelectInit == AuthIdle /\ CodecIdle /\ MoveIdle /\ InvIdle /\ NormIdle /\ ApiIdle

SpecSelect == SpecSelectInit /\ [][SelectNext]_vars

\* ------------------------------------------------------------------ claims

\* C1: the OAuth state is one-shot: once a callback has consumed a state value, a
\* later callback that presents the same state value fails the handshake and
\* writes no session cookie, also when the client sends the earlier state cookie
\* again.
C1_OneShot ==
    (last.route = "GET /api/auth/callback" /\ last.replay)
        => (last.resp.status # 200 /\ last.resp.session = Keep)

\* C2: the callback writes a session cookie only if the request carried a
\* decryptable state cookie whose state equals the query state and had not
\* expired, code and state were non-empty, and the provider returned a token and
\* an identity.
C2_SessionOnlyAfterHandshake ==
    (last.route = "GET /api/auth/callback" /\ last.resp.session # Keep)
        => (last.handshake /\ last.resp.session.kind = "token")

C2_Witness ==
    /\ last.route = "GET /api/auth/callback"
    /\ last.resp.session.kind = "token"
    /\ last.resp.status = 200

\* C3 as stated: every callback response, configuration errors included, clears
\* the state cookie.
C3_AlwaysClears ==
    last.route = "GET /api/auth/callback" => last.resp.oauth = Clear

\* C3 as amended: every callback that passes the configuration checks clears the
\* state cookie whatever its outcome; a configuration error answers 500 and
\* touches no cookie.
C3_ClearsOnceConfigured ==
    last.route = "GET /api/auth/callback" =>
        IF HAS_CRYPTO_CONFIG /\ HAS_GITHUB_OAUTH_CONFIG
        THEN last.resp.oauth = Clear
        ELSE last.resp.status = 500 /\ last.resp.oauth = Keep /\ last.resp.session = Keep

C3_Witness ==
    /\ last.route = "GET /api/auth/callback"
    /\ last.resp.status = 500
    /\ last.resp.upstream = 1
    /\ last.resp.oauth = Clear

\* C4: on every endpoint that requires authentication a request with an expired
\* or corrupt session cookie, or one without a token, is answered exactly as the
\* same request without a session cookie; once the handler is past its
\* configuration check that answer is 401, the session cookie cleared, and no
\* upstream call.
C4_InvalidSessionAsAbsent ==
    (last.route \in AuthRoutes /\ last.cookie \in {"expired", "corrupt", "no_token"})
        => /\ last.sameAsAbsent
           /\ HAS_CRYPTO_CONFIG =>
                 /\ last.resp.status = 401
                 /\ last.resp.session = Clear
                 /\ last.resp.upstream = 0

C4_Witness ==
    /\ last.route \in AuthRoutes
    /\ last.cookie = "expired"
    /\ last.resp.status = 401

\* C5: every session readSession returns has a non-empty github_token, has not
\* expired, and expires 24h after it was issued.
C5_SessionValid ==
    \A cookie \in {jar.session, jar.oauth, NoCookie, Garbage} :
        LET session == readSession(cookie, now) IN
        session # Null =>
            /\ Has(session, "github_token") /\ session.github_token # ""
            /\ Has(session, "expires_at") /\ now <= session.expires_at
            /\ Has(session, "issued_at")
            /\ session.expires_at = session.issued_at + 24 * 60 * 60 * 1000

C5_Witness ==
    /\ last.route = "POST /api/select-repo"
    /\ last.resp.status = 200
    /\ readSession(jar.session, now) # Null
    /\ readSession(jar.session, now).issued_at > 0

\* C6: the codec round-trips: decryptPayload(encryptPayload(P)) is P for every
\* payload and every nonce.
C6_RoundTrip ==
    (codec.pc = "opened" /\ codec.clean) => codec.result = codec.payload

C6_Witness ==
    /\ codec.pc = "opened"
    /\ codec.clean
    /\ codec.payload = JArr(<<JNum>>)
    /\ codec.result = codec.payload

\* C7: decryption fails closed: a token that is not exactly an output of
\* encryptPayload under the key decrypts to null.
EncryptOutputs == {encryptPayload(payload, iv) : payload \in JsonValues(MaxDepth), iv \in Ivs}

C7_FailsClosed ==
    (codec.pc = "opened" /\ codec.token \notin EncryptOutputs) => codec.result = Null

\* C8: a move whose computed target path (destination folder plus the source's
\* base name) equals the normalized source path is answered 400 and no call
\* to the GitHub API is made.
C8_SameTargetRejected ==
    (mv.pc # "idle" /\ mv.targetPath # Null /\ mv.targetPath = mv.sourcePath) =>
        /\ mv.pc = "done"
        /\ mv.resp.status = 400
        /\ mv.calls = <<>>
        /\ mv.resp.upstream = 0
        /\ repo = before

C8_Witness ==
    /\ mv.pc = "done"
    /\ mv.targetPath = JStr(<<"a", "/", "x">>)
    /\ mv.sourcePath = mv.targetPath
    /\ mv.destinationFolder = JStr(<<"a">>)
    /\ mv.resp.status = 400

\* C9: a move whose target already exists is answered 409, a target lookup that
\* fails with anything but 404 is answered 500, and in both cases no write or
\* delete call is issued and the repository is as the request found it; only a
\* target that is absent lets the move go on.
C9_ExistingTargetUntouched ==
    /\ (mv.pc = "done" /\ mv.lookup \in {"found", "error"}) =>
          /\ mv.resp.status = (IF mv.lookup = "found" THEN 409 ELSE 500)
          /\ \A i \in 1..Len(mv.calls) : mv.calls[i].op = "getContent"
          /\ repo = before
    /\ (mv.lookup # "none" /\ before[joinAssetRepoPath(mv.targetPath.s)] # Absent) =>
          mv.lookup \in {"found", "error"}

C9_Witness ==
    /\ mv.pc = "done"
    /\ mv.lookup = "found"
    /\ mv.resp.status = 409
    /\ before[joinAssetRepoPath(mv.sourcePath.s)] = File(1)
    /\ before[joinAssetRepoPath(mv.targetPath.s)] = LargeFile
    /\ repo = before

\* C10: the folders buildAssetInventory emits are exactly the non-root ancestor
\* directories of the entries' relative paths, each of them once.
AncestorDirs(path) ==
    {SubSeq(path, 1, i - 1) : i \in {j \in 1..Len(path) : path[j] = "/"}} \ {<<>>}

C10_FoldersAreAncestors ==
    inv.pc = "built" =>
        LET folders == inv.result.folders IN
        /\ {folders[i].path : i \in 1..Len(folders)} =
              UNION {AncestorDirs(inv.blobEntries[k].relativePath) :
                         k \in 1..Len(inv.blobEntries)}
        /\ \A i, j \in 1..Len(folders) : folders[i].path = folders[j].path => i = j

C10_Witness ==
    /\ inv.pc = "built"
    /\ [k \in 1..Len(inv.blobEntries) |-> inv.blobEntries[k].relativePath] =
          <<(<<"x">>), (<<"a", "/", "b", "/", "y">>), (<<"a", "/">> \o GITKEEP)>>
    /\ [i \in 1..Len(inv.result.folders) |-> inv.result.folders[i].path] =
          <<(<<"a">>), (<<"a", "/", "b">>)>>
    /\ Len(inv.result.files) = 2

\* C11: the files buildAssetInventory emits are exactly the kept entries whose
\* last path segment is not ".gitkeep", as many times as they occur, each with
\* folder equal to its parent path; a ".gitkeep" entry puts its parent folder and
\* that folder's ancestors in the folder set and is never a file.
LastSegment(path) == LET segments == split(path, "/") IN segments[Len(segments)]

ParentOf(path) == LET segments == split(path, "/") IN
    join(SubSeq(segments, 1, Len(segments) - 1), "/")

IsMarker(path) == LastSegment(path) = GITKEEP

C11_MarkersAreNotFiles ==
    inv.pc = "built" =>
        LET files == inv.result.files
            folders == inv.result.folders
            entries == inv.blobEntries
        IN /\ \A k \in 1..Len(entries) :
                LET path == entries[k].relativePath IN
                Cardinality({i \in 1..Len(files) : files[i].path = path}) =
                    (IF IsMarker(path) THEN 0
                     ELSE Cardinality({j \in 1..Len(entries) : entries[j].relativePath = path}))
           /\ \A i \in 1..Len(files) :
                /\ \E k \in 1..Len(entries) : entries[k].relativePath = files[i].path
                /\ files[i].folder = ParentOf(files[i].path)
                /\ files[i].name = LastSegment(files[i].path)
                /\ files[i].name # GITKEEP
           /\ \A k \in 1..Len(entries) :
                IsMarker(entries[k].relativePath) =>
                    AncestorDirs(entries[k].relativePath) \subseteq
                        {folders[i].path : i \in 1..Len(folders)}

C11_Witness ==
    /\ inv.pc = "built"
    /\ [k \in 1..Len(inv.blobEntries) |-> inv.blobEntries[k].relativePath] =
          <<(<<"a", "/">> \o GITKEEP), (<<"x">>), (<<"a", "/">> \o GITKEEP)>>
    /\ [i \in 1..Len(inv.result.files) |-> inv.result.files[i].path] = <<(<<"x">>)>>
    /\ [i \in 1..Len(inv.result.folders) |-> inv.result.folders[i].path] = <<(<<"a">>)>>

\* C13: both path normalizers answer, for every input, either invalid (null) or
\* segments joined by single "/", every segment from the allow-list (letters,
\* digits, ".", space, "-", "_"; 1 to 128 long) and neither "." nor "..": no
\* backslash, no empty segment, no slash at either end.
AllowListed(c) == c \in Lower \cup Upper \cup Digit \cup {".", " ", "-", "_"}

IsCanonical(out) ==
    out # Null =>
        /\ out.kind = "string"
        /\ out.s # <<>> =>
             LET segments == split(out.s, "/") IN
             \A k \in 1..Len(segments) :
                /\ Len(segments[k]) \in 1..128
                /\ \A i \in 1..Len(segments[k]) : AllowListed(segments[k][i])
                /\ segments[k] # <<".">>
                /\ segments[k] # <<".", ".">>

C13_CanonicalOutput ==
    /\ norm.pc \in {"folder", "done"} => IsCanonical(norm.folder)
    /\ norm.pc = "done" => IsCanonical(norm.asset)

C13_Witness ==
    /\ norm.pc = "done"
    /\ norm.value = JStr(<<"a", "/", "/", "b", "/">>)
    /\ norm.folder = JStr(<<"a", "/", "b">>)
    /\ norm.asset = JStr(<<"a", "/", "b">>)

\* C14: for nothing at all, the empty string, a string of slashes and the bare
\* asset root, normalizeFolderPath answers "" (the root) and
\* normalizeAssetRelativePath answers invalid; normalizeAssetRelativePath never
\* answers the empty string.
IsRootInput(value) ==
    \/ value = Null
    \/ /\ value.kind = "string"
       /\ \/ \A i \in 1..Len(value.s) : value.s[i] = "/"
          \/ value.s = ASSETS_ROOT_PATH

C14_RootHandling ==
    norm.pc = "done" =>
        /\ IsRootInput(norm.value) => (norm.folder = JStr(<<>>) /\ norm.asset = Null)
        /\ norm.asset # JStr(<<>>)

C14_Witness ==
    /\ norm.pc = "done"
    /\ norm.value = JStr(ASSETS_ROOT_PATH)
    /\ norm.folder = JStr(<<>>)
    /\ norm.asset = Null

\* C19: a move copies, then deletes: with no other writer, at every point of the
\* request the content the source held is at the source path or at the target
\* path; every delete call follows the write call; a failed write leaves the
\* repository as it was; a failed delete leaves both copies, is answered 500 and
\* is followed by no further call.
HoldsContentOf(path, file) ==
    entryAt(path).type = "file" /\ entryAt(path).content = file.content

LastCall == mv.calls[Len(mv.calls)]

C19_CopyThenDelete ==
    (mv.pc # "idle" /\ mv.sourcePath # Null) =>
        LET sourceRepoPath == joinAssetRepoPath(mv.sourcePath.s)
            targetRepoPath == joinAssetRepoPath(mv.targetPath.s)
        IN /\ before[sourceRepoPath].type = "file" =>
                \/ repo[sourceRepoPath] = before[sourceRepoPath]
                \/ HoldsContentOf(targetRepoPath, before[sourceRepoPath])
           /\ \A i \in 1..Len(mv.calls) :
                mv.calls[i].op = "deleteFile" =>
                    /\ i > 1
                    /\ mv.calls[i - 1].op = "createOrUpdateFileContents"
                    /\ HoldsContentOf(targetRepoPath, before[sourceRepoPath])
           /\ (mv.pc = "done" /\ mv.calls # <<>> /\ mv.resp.status # 200) =>
                /\ LastCall.op = "createOrUpdateFileContents" => repo = before
                /\ LastCall.op = "deleteFile" =>
                     /\ mv.resp.status = 500
                     /\ repo[sourceRepoPath] = before[sourceRepoPath]
                     /\ HoldsContentOf(targetRepoPath, before[sourceRepoPath])
                     /\ Len(mv.calls) = 4

C19_Witness ==
    /\ mv.pc = "done"
    /\ mv.resp.status = 500
    /\ mv.calls # <<>>
    /\ LastCall.op = "deleteFile"
    /\ repo[joinAssetRepoPath(mv.sourcePath.s)] = File(1)
    /\ repo[joinAssetRepoPath(mv.targetPath.s)] = File(1)
    /\ before[joinAssetRepoPath(mv.targetPath.s)] = Absent

\* C18 as stated: with the encryption secret missing every handler, and with the
\* client id or the client secret missing both OAuth handlers, answer the
\* configuration error, no cookie touched and no upstream call made.
OAuthRoutes == {"GET /api/auth/url", "GET /api/auth/callback"}

C18_EveryHandlerChecks ==
    last.route # "none" =>
        /\ ~HAS_CRYPTO_CONFIG => last.resp = CryptoNotConfigured
        /\ (last.route \in OAuthRoutes /\ HAS_CRYPTO_CONFIG /\ ~HAS_GITHUB_OAUTH_CONFIG) =>
              last.resp = OAuthNotConfigured

\* C18 as amended: every handler but /api/health and /api/logout answers the
\* configuration error, no cookie touched and no upstream call made, when the
\* encryption secret is missing; /api/auth/url does so when the client id is
\* missing, /api/auth/callback when the client id or the client secret is;
\* /api/health and /api/logout check nothing and /api/auth/url does not look at
\* the client secret.
Unchecked == {"GET /api/health", "POST /api/logout"}

C18_ChecksWhereNeeded ==
    last.route # "none" =>
        /\ (last.route \notin Unchecked /\ ~HAS_CRYPTO_CONFIG) =>
              last.resp = CryptoNotConfigured
        /\ (last.route = "GET /api/auth/url" /\ HAS_CRYPTO_CONFIG) =>
              (last.resp = OAuthNotConfigured <=> ~HAS_GITHUB_CLIENT_ID)
        /\ (last.route = "GET /api/auth/callback" /\ HAS_CRYPTO_CONFIG
              /\ ~HAS_GITHUB_OAUTH_CONFIG) =>
              last.resp = OAuthNotConfigured
        /\ last.route \in Unchecked => last.resp.status = 200
        /\ last.resp \in {CryptoNotConfigured, OAuthNotConfigured} =>
              /\ last.resp.status = 500
              /\ last.resp.session = Keep
              /\ last.resp.oauth = Keep
              /\ last.resp.upstream = 0

C18_Witness ==
    /\ last.route = "GET /api/auth/callback"
    /\ HAS_CRYPTO_CONFIG
    /\ HAS_GITHUB_CLIENT_ID
    /\ ~HAS_GITHUB_CLIENT_SECRET
    /\ last.resp = OAuthNotConfigured
    /\ jar.oauth # NoCookie

\* The requests of the clients that have been answered.
Responded(c) == api[c].pc = "done"

\* The session has no repository selected, or none that names an owner and a
\* repository.
NothingSelected(session) ==
    \/ session.selected_repo = Null
    \/ parseRepoFullName(session.selected_repo) = Null

\* C12: GET /api/assets without a session is answered 401; with a valid session
\* whose selected_repo is null or is not a valid owner/repo it is answered at
\* once, with no call to the provider, 200 and the listing with current_folder
\* "", no folders, no files and no all_folders.
C12_AssetsWithoutSelection ==
    \A c \in Clients :
        api[c].route = "GET /api/assets" =>
            LET session == requireSession(api[c].rq, now) IN
            /\ session = Null =>
                   /\ Responded(c)
                   /\ api[c].resp.status = 401
                   /\ api[c].calls = <<>>
            /\ (session # Null /\ NothingSelected(session)) =>
                   /\ Responded(c)
                   /\ api[c].resp.status = 200
                   /\ api[c].resp.body =
                          [current_folder |-> <<>>, folders |-> <<>>, files |-> <<>>,
                           all_folders |-> <<>>]
                   /\ api[c].calls = <<>>
                   /\ api[c].resp.upstream = 0

C12_Witness ==
    \E c \in Clients :
        /\ api[c].route = "GET /api/assets"
        /\ api[c].rq.folder = JStr(<<"a">>)
        /\ requireSession(api[c].rq, now) # Null
        /\ requireSession(api[c].rq, now).selected_repo = JStr(<<"o">>)
        /\ api[c].resp.status = 200
        /\ api[c].resp.body.current_folder = <<>>

\* A validation or authentication response.
Rejection(resp) == resp.status \in {400, 401}

\* C16, as the specification states it: in every handler a request answered 400
\* or 401 has made no call to the provider.
C16_NoCallBeforeAnyRejection ==
    /\ \A c \in Clients : Rejection(api[c].resp) => api[c].calls = <<>>
    /\ Rejection(mv.resp) => mv.calls = <<>>

SourceNotAFile == Err("Source path must be a file.")

\* C16, as the code has it: a request answered 400 or 401 has made no call to
\* the provider, but for the move answered 400 because its source is not a file,
\* which has read the target and the source (two getContent calls) and written
\* nothing.
C16_NoCallBeforeRejection ==
    /\ \A c \in Clients :
           Rejection(api[c].resp) => (api[c].calls = <<>> /\ api[c].resp.upstream = 0)
    /\ Rejection(mv.resp) =>
           \/ mv.calls = <<>>
           \/ /\ mv.resp.body = SourceNotAFile
              /\ Len(mv.calls) = 2
              /\ \A i \in 1..2 : mv.calls[i].op = "getContent"
              /\ repo = before

C16_Witness ==
    /\ api[1].route = "POST /api/upload"
    /\ api[1].resp.status = 400
    /\ api[1].resp.body = Err("Invalid upload payload.")
    /\ normalizeFolderPath(api[1].rq.folder) # Null
    /\ api[1].calls = <<>>

ReadRoutes == {"GET /api/assets", "GET /api/folders"}

TargetedMutations == {"DELETE /api/assets", "DELETE /api/assets/:name", "DELETE /api/folders"}

EmptyResult(c) ==
    IF api[c].route = "GET /api/assets" THEN EmptyListing(api[c].folder)
    ELSE [folders |-> <<>>]

\* C17: when the provider answers 404, GET /api/assets and GET /api/folders
\* answer 200 with an empty result, and the targeted mutations (delete by path
\* and sha, delete by name, folder delete whose listing finds no repository or
\* branch, move whose source is absent) answer 404.
C17_NotFoundMapping ==
    /\ \A c \in Clients :
           (Responded(c) /\ api[c].upstream = 404) =>
               /\ api[c].route \in ReadRoutes =>
                      (api[c].resp.status = 200 /\ api[c].resp.body = EmptyResult(c))
               /\ api[c].route \in TargetedMutations => api[c].resp.status = 404
    /\ (mv.pc = "done" /\ mv.sourceStatus = 404) => mv.resp.status = 404

\* The blobs the repository held under folder F when the request began: the
\* files whose path is the assets root, F, "/" and more.
BlobsUnder(F) ==
    {p \in DOMAIN before :
        /\ before[p].type = "file"
        /\ startsWith(p, UnderRoot(F) \o <<"/">>)}

DeletesIssued(c) ==
    {api[c].calls[i].path : i \in {j \in 1..Len(api[c].calls) : api[c].calls[j].op = "deleteFile"}}

\* C20: DELETE /api/folders?path=F issues deleteFile only for blobs whose
\* relative path starts with F and "/", markers and nested folders included, and
\* when it answers 200 it has issued one for each of them and they are gone; no
\* blob outside F changes, a sibling whose name begins with F among them; when the
\* listing succeeds and no entry matches it answers 404 and issues no delete.
C20_FolderDeleteScope ==
    \A c \in Clients :
        api[c].route = "DELETE /api/folders" =>
            LET F == api[c].folder IN
            /\ DeletesIssued(c) \subseteq BlobsUnder(F)
            /\ \A p \in DOMAIN repo \ BlobsUnder(F) : repo[p] = before[p]
            /\ \A p \in BlobsUnder(F) :
                   IF p \in DeletesIssued(c) THEN repo[p] \in {Absent, before[p]}
                   ELSE repo[p] = before[p]
            /\ (Responded(c) /\ api[c].resp.status = 200) =>
                   /\ DeletesIssued(c) = BlobsUnder(F)
                   /\ api[c].resp.body.deleted = Cardinality(BlobsUnder(F))
                   /\ \A p \in BlobsUnder(F) : repo[p] = Absent
            /\ (Responded(c) /\ api[c].resp.status = 404) =>
                   /\ BlobsUnder(F) = {}
                   /\ DeletesIssued(c) = {}
                   /\ repo = before
            /\ (Responded(c) /\ api[c].upstream = 200 /\ BlobsUnder(F) = {}) =>
                   api[c].resp.status = 404

C20_Witness ==
    \E c \in Clients :
        /\ api[c].route = "DELETE /api/folders"
        /\ api[c].folder = <<"a">>
        /\ Responded(c)
        /\ api[c].resp.status = 200
        /\ api[c].resp.body.deleted = 3
        /\ UnderRoot(<<"a", "/">> \o GITKEEP) \in DeletesIssued(c)
        /\ UnderRoot(<<"a", "/", "b", "/", "y">>) \in DeletesIssued(c)
        /\ before[UnderRoot(<<"a", "b", "/", "x">>)] = File(1)
        /\ repo[UnderRoot(<<"a", "b", "/", "x">>)] = File(1)

\* Both clients have sent DELETE /api/assets for the same path and sha, and both
\* have had the provider's answer.
SameDeleteTwice ==
    /\ \A c \in Clients : Responded(c) /\ api[c].calls # <<>>
    /\ api[1].target = api[2].target
    /\ api[1].sha = api[2].sha

Succeeded == {c \in Clients : api[c].resp.status = 200}

\* C15: of two DELETE /api/assets for the same path and sha, in any interleaving,
\* at most one succeeds and the other is answered with a failure; when the blob
\* is there with that sha and the provider does not fail otherwise, exactly one
\* succeeds and the other fails on the provider's refusal; the blob is deleted
\* once, by the one that succeeds, and no other blob changes.
C15_OneDeleteWins ==
    SameDeleteTwice =>
        LET p == api[1].target IN
        /\ Cardinality(Succeeded) <= 1
        /\ \A c \in Clients \ Succeeded :
               api[c].resp = Response(500, Err("Delete failed"), Keep, Keep, 1)
        /\ \A c \in Succeeded :
               /\ api[c].resp.body = [success |-> TRUE]
               /\ before[p].type = "file"
               /\ before[p].sha = api[c].sha
        /\ (/\ before[p].type = "file"
            /\ before[p].sha = api[1].sha
            /\ \A c \in Clients : api[c].upstream # 500) =>
               /\ Cardinality(Succeeded) = 1
               /\ \A c \in Clients \ Succeeded : api[c].upstream \in {404, 409}
        /\ repo[p] = IF Succeeded # {} THEN Absent ELSE before[p]
        /\ \A q \in DOMAIN repo \ {p} : repo[q] = before[q]

C15_Witness ==
    /\ SameDeleteTwice
    /\ before[api[1].target] = File(1)
    /\ api[1].sha = <<"1">>
    /\ api[2].resp.status = 200
    /\ api[1].resp.status = 500
    /\ api[1].upstream = 404
    /\ repo[api[1].target] = Absent

\* The deleteFile calls of client c, in the order made.
DeleteCalls(c) ==
    LET IsDelete(call) == call.op = "deleteFile" IN SelectSeq(api[c].calls, IsDelete)

\* C21: when the k-th deleteFile of a DELETE /api/folders fails the response
\* is the generic 500, the k-1 blobs deleted before it are gone, the k-th and
\* the blobs after it are as they were and those after it were not attempted,
\* and nothing else in the repository has changed.
C21_PartialFolderDelete ==
    \A c \in Clients :
        (/\ api[c].route = "DELETE /api/folders"
         /\ Responded(c)
         /\ DeleteCalls(c) # <<>>
         /\ api[c].upstream # 200) =>
            LET k == Len(DeleteCalls(c))
                matched == api[c].matched
            IN /\ api[c].resp.status = 500
               /\ api[c].resp.body = Err("Failed to delete folder.")
               /\ k <= Len(matched)
               /\ \A i \in 1..k : DeleteCalls(c)[i].path = matched[i].repoPath
               /\ \A i \in 1..(k - 1) : repo[matched[i].repoPath] = Absent
               /\ \A i \in k..Len(matched) :
                      /\ repo[matched[i].repoPath] = before[matched[i].repoPath]
                      /\ repo[matched[i].repoPath].type = "file"
               /\ \A p \in DOMAIN repo \ {matched[i].repoPath : i \in 1..Len(matched)} :
                      repo[p] = before[p]

C21_Witness ==
    \E c \in Clients :
        /\ api[c].route = "DELETE /api/folders"
        /\ Responded(c)
        /\ api[c].resp.status = 500
        /\ Len(api[c].matched) = 3
        /\ Len(DeleteCalls(c)) = 2
        /\ repo[api[c].matched[1].repoPath] = Absent
        /\ repo[api[c].matched[2].repoPath] = File(1)
        /\ repo[api[c].matched[3].repoPath] = File(1)

\* The callback was the last request answered, and it failed.
CallbackFailed ==
    /\ last.route = "GET /api/auth/callback"
    /\ last.resp.status # 200

\* C22: after a GET /api/auth/callback that fails, at whatever step, the
\* response has set no session cookie, and a request of that client to a route
\* that requires a session is answered 401.
C22_FailedCallbackNoSession ==
    CallbackFailed =>
        /\ last.resp.session \in {Keep, Clear}
        /\ HAS_CRYPTO_CONFIG =>
               HandleGuarded(Request("guarded", jar.session, NoCookie, "", "", "valid",
                                     Null, Null), now).status = 401

\* The step in which a callback in hand is answered with success.
CallbackSucceeds ==
    /\ pend # Null
    /\ pend' = Null
    /\ last'.route = "GET /api/auth/callback"
    /\ last'.resp.status = 200

\* The selection in the session cookie the callback request carried, read as the
\* cookie states it, expired or not.
CarriedSelection ==
    IF pend.req.session.kind = "token" /\ Has(pend.req.session.payload, "github_token")
    THEN [repo |-> pend.req.session.payload.selected_repo,
          branch |-> pend.req.session.payload.selected_branch]
    ELSE [repo |-> Null, branch |-> Null]

WrittenSelection ==
    [repo |-> last'.resp.session.payload.selected_repo,
     branch |-> last'.resp.session.payload.selected_branch]

\* C23, as the specification states it: a successful callback writes a session
\* whose selected_repo and selected_branch are those the user had selected
\* before, null only if none was selected.
C23_SelectionAlwaysKept == [][CallbackSucceeds => WrittenSelection = CarriedSelection]_vars

\* C23, as the code has it: a successful callback writes a session whose
\* selected_repo and selected_branch are those of the session the request
\* carries when readSession accepts it, and null when it accepts none (no
\* cookie, one that does not decrypt, or one that has expired).
C23_SelectionKeptFromValidSession ==
    [][CallbackSucceeds =>
          LET existingSession == readSession(pend.req.session, now') IN
          WrittenSelection =
              IF existingSession = Null THEN [repo |-> Null, branch |-> Null]
              ELSE [repo |-> existingSession.selected_repo,
                    branch |-> existingSession.selected_branch]]_vars

C23_Witness ==
    /\ last.route = "GET /api/auth/callback"
    /\ last.resp.status = 200
    /\ last.resp.session.payload.github_token = "gho_A"
    /\ last.resp.session.payload.selected_repo # Null

\* The select-repo request of client 1 and the session it carried.
SelectAnswered == api[1].route = "POST /api/select-repo" /\ Responded(1)

SelectValidInput ==
    /\ parseRepoFullName(api[1].rq.repo) # Null
    /\ api[1].rq.branch = Null \/ parseBranchName(api[1].rq.branch) # Null

\* C24: POST /api/select-repo from a valid session with a valid repo and a valid
\* or absent branch writes a session with the token, username and avatar of the
\* old one, the repo and the branch as validated ("main" for an absent branch),
\* issued_at = now and expires_at = now + 24 h; with an invalid repo or branch
\* it answers 400 and writes no cookie.
C24_SelectRepoReissues ==
    SelectAnswered =>
        LET rq == api[1].rq
            session == readSession(rq.session, now)
            resp == api[1].resp
        IN session # Null =>
               IF SelectValidInput
               THEN /\ resp.status = 200
                    /\ resp.session.kind = "token"
                    /\ resp.session.payload =
                           [github_token |-> session.github_token,
                            username |-> session.username,
                            avatar_url |-> session.avatar_url,
                            selected_repo |-> JStr(trim(rq.repo.s)),
                            selected_branch |-> IF rq.branch = Null
                                                THEN JStr(<<"m", "a", "i", "n">>)
                                                ELSE JStr(trim(rq.branch.s)),
                            issued_at |-> now,
                            expires_at |-> now + 24 * 60 * 60 * 1000]
               ELSE /\ resp.status = 400
                    /\ resp.session = Keep

C24_Witness ==
    /\ SelectAnswered
    /\ now > 0
    /\ api[1].rq.repo = JStr(<<" ", "o", "/", "r", " ">>)
    /\ api[1].rq.branch = Null
    /\ api[1].resp.status = 200
    /\ api[1].resp.session.payload.issued_at = now
    /\ api[1].resp.session.payload.selected_branch = JStr(<<"m", "a", "i", "n">>)

\* The upload of client 1 has got as far as the provider.
UploadStored ==
    /\ api[1].route = "POST /api/upload"
    /\ api[1].target # <<>>

StoredName == fileNameFromPath(api[1].relative)

ExtensionOfName(name) ==
    LET dots == {i \in 1..Len(name) : name[i] = "."} IN
    IF dots = {} THEN <<>>
    ELSE LET d == CHOOSE i \in dots : \A j \in dots : j <= i
             ext == toLowerCase(SubSeq(name, d + 1, Len(name)))
         IN IF /\ d > 1
               /\ Len(ext) \in 1..10
               /\ \A i \in 1..Len(ext) : ext[i] \in Lower \cup Digit
            THEN ext ELSE <<>>

UploadContentChecked ==
    /\ api[1].route = "POST /api/upload"
    /\ api[1].pc # "idle"
    /\ requireSession(api[1].rq, now) # Null
    /\ getRepoSelection(requireSession(api[1].rq, now)) # Null
    /\ normalizeFolderPath(api[1].rq.folder) # Null

UploadRejected == api[1].resp = BadRequest("Invalid upload payload.")

\* C26, as the specification states it: the content is accepted as plain base64
\* or as a data-URL, and only a missing or empty content is answered 400.
C26_OnlyEmptyRejected ==
    UploadContentChecked =>
        (UploadRejected =>
            (api[1].rq.content.kind # "string" \/ api[1].rq.content.s = <<>>))

\* C26, as the code has it: the content is accepted only when it is a string
\* with a comma that is neither its first nor its last character; what is
\* uploaded is the text after the first comma. Everything else is answered 400:
\* no content, a content that is not a string, plain base64 with no comma, a
\* comma in the first place, a first comma in the last place.
C26_CommaRequired ==
    UploadContentChecked =>
        LET content == api[1].rq.content
            commas == IF content.kind = "string"
                      THEN {i \in 1..Len(content.s) : content.s[i] = ","} ELSE {}
            first == IF commas = {} THEN 0
                     ELSE CHOOSE i \in commas : \A j \in commas : i <= j
            payload == extractBase64Payload(content)
        IN IF first > 1 /\ first < Len(content.s)
           THEN /\ ~UploadRejected
                /\ api[1].target # <<>>
                /\ payload = JStr(SubSeq(content.s, first + 1, Len(content.s)))
           ELSE /\ UploadRejected
                /\ api[1].calls = <<>>
                /\ payload = Null

C26_Witness ==
    /\ UploadContentChecked
    /\ api[1].rq.content = JStr(<<"x", ",", "Q", ",", "Q">>)
    /\ extractBase64Payload(api[1].rq.content) = JStr(<<"Q", ",", "Q">>)
    /\ Responded(1)
    /\ api[1].resp.status = 200

\* The statuses of the error taxonomy, and success.
HandlerStatuses == {200, 400, 401, 404, 409, 500}

\* C27: every request to every route is answered by the route's own handler
\* with a status among 200, 400, 401, 404, 409 and 500, whatever the host, the
\* body or the provider's answer; no exception leaves a handler.
C27_NothingEscapes ==
    /\ last.route # "none" =>
           /\ last.resp.status \in HandlerStatuses
           /\ ~Has(last.resp.body, "uncaught")
    /\ mv.pc = "done" => mv.resp.status \in HandlerStatuses
    /\ \A c \in Clients : Responded(c) => api[c].resp.status \in HandlerStatuses

\* The calls that read or write the repository's contents at a path.
ContentOps == {"getContent", "createOrUpdateFileContents", "deleteFile"}

ContentCalls ==
    {mv.calls[i] : i \in DOMAIN mv.calls}
    \cup UNION {{api[c].calls[i] : i \in DOMAIN api[c].calls} : c \in Clients}

\* The path is the asset root followed by one or more segments, none of them
\* empty, "." or "..", and none with a backslash.
UnderAssetRoot(path) ==
    /\ Len(path) > Len(ASSETS_ROOT_PATH) + 1
    /\ SubSeq(path, 1, Len(ASSETS_ROOT_PATH) + 1) = ASSETS_ROOT_PATH \o <<"/">>
    /\ LET segments == split(SubSeq(path, Len(ASSETS_ROOT_PATH) + 2, Len(path)), "/")
       IN \A i \in DOMAIN segments :
            /\ segments[i] # <<>>
            /\ segments[i] # <<".">>
            /\ segments[i] # <<".", ".">>
            /\ ~includes(segments[i], <<Bs>>)

\* C28: every path handed to a call on the repository's contents lies under
\* the asset root: "assets/" and one or more segments that are not empty, not
\* "." and not "..", and hold no slash or backslash.
C28_AssetRootConfinement ==
    \A call \in ContentCalls : call.op \in ContentOps => UnderAssetRoot(call.path)

C28_Witness ==
    /\ api[1].route = "DELETE /api/assets/:name"
    /\ api[1].rq.name = JStr(<<"p", ".", "P", "N", "G">>)
    /\ Responded(1)
    /\ api[1].calls = <<[op |-> "deleteFile", path |-> UnderRoot(<<"p", ".", "P", "N", "G">>)]>>

\* The value is the path of a blob that getAssetBlobEntries keeps: it starts
\* with the asset root and a slash, and normalizeAssetRelativePath accepts it.
KeptTreePath ==
    /\ norm.pc = "done"
    /\ norm.value # Null
    /\ norm.value.kind = "string"
    /\ Len(norm.value.s) > Len(ASSETS_ROOT_PATH)
    /\ SubSeq(norm.value.s, 1, Len(ASSETS_ROOT_PATH) + 1) = ASSETS_ROOT_PATH \o <<"/">>
    /\ norm.asset # Null

\* C29: for every blob getAssetBlobEntries keeps, repoPath is the blob's path
\* in the tree, and the relative path listed for it, sent back through
\* normalizeAssetRelativePath and joinAssetRepoPath, gives that path again:
\* normalizeAssetRelativePath leaves its own results as they are, a first
\* segment "assets" included.
C29_ListedPathsAddressable ==
    KeptTreePath =>
        /\ joinAssetRepoPath(norm.asset.s) = norm.value.s
        /\ normalizeAssetRelativePath(norm.asset) = norm.asset
        /\ joinAssetRepoPath(normalizeAssetRelativePath(norm.asset).s) = norm.value.s

\* C30: a value written as the oauth_state cookie is never taken for a session
\* by readSession, and a value written as the session cookie never passes the
\* callback's check of the state, whatever code and state the query carries.
C30_NoCrossCookieConfusion ==
    /\ (last.sessionSent = "auth/url" /\ last.route \in AuthRoutes) =>
           /\ last.sameAsAbsent
           /\ HAS_CRYPTO_CONFIG => last.resp.status = 401
    /\ (last.oauthSent = "writeSession" /\ last.route = "GET /api/auth/callback") =>
           /\ ~last.handshake
           /\ last.resp.status # 200
           /\ last.resp.session = Keep
           /\ (HAS_CRYPTO_CONFIG /\ HAS_GITHUB_OAUTH_CONFIG) => last.resp.status = 400
    /\ MintedBy(jar.oauth) = "auth/url" => readSession(jar.oauth, now) = Null
    /\ MintedBy(jar.session) = "writeSession" =>
           \A state \in States :
               OAuthStateRejected(readEncryptedCookie(jar.session), state, now)

C30_Witness ==
    /\ last.oauthSent = "writeSession"
    /\ last.route = "GET /api/auth/callback"
    /\ last.resp = CallbackResponse(400, Err("Invalid or expired OAuth state."), Keep, 0)
    /\ MintedBy(jar.session) = "writeSession"
    /\ readSession(jar.session, now) # Null

====
